---- MODULE Spec2Model ----
(***************************************************************************)
(* Grants dashboard: the mock REST backend (lib/mock), the fetch-based     *)
(* Dashboard component (handlers, derived views) and the DataTable         *)
(* component, as state machines.                                           *)
(*                                                                         *)
(* Dates.  A JS Date that the dashboard holds is always built from a       *)
(* date-only string "YYYY-MM-DD", so it is a UTC midnight; it is modelled  *)
(* by its day number (days since 1970-01-01).  The string form that        *)
(* travels in request and response bodies is modelled by the triple        *)
(* <<year, month, day>>.  Calendar fields are taken in a time zone in      *)
(* which a UTC midnight falls on the same calendar day.                    *)
(***************************************************************************)
EXTENDS Integers, Sequences, FiniteSets, TLC

VARIABLES
    \* lib/mock: the three stores and their id counters, by entity
    mock, idCounter,
    \* Dashboard: the useState slices receipts / allocations / expenditures, by entity
    lists,
    canModify, allocationFilters, receiptTabFilters, activeTab,
    \* window.location.href
    location,
    \* whether the initial-load effect has run, and the async invocations
    \* (handlers, fetches) that have not returned yet, by slot
    mounted, calls,
    \* observation: the ids each store has handed out, in order, the number of
    \* requests the backend has refused, the number of handler invocations
    \* the user may still start, and the invocation that returned last
    assignedIds, errors, opsLeft, lastDone,
    \* observation: per entity, whether the list has been set from a read
    \* response that was waiting to be processed while the backend served a
    \* later mutation of that entity
    overwritten,
    \* DataTable: props and useState slices
    data, filterValues, sortConfig, currentPage, rowsPerPage,
    \* argument and result of a pure function under test
    fnArg, fnRes,
    \* AddEntryDialog and EditDeleteDialog: open / editOpen and formData, with
    \* the entity (and the row) whose dialog it is
    addDialog, editDialog,
    \* EditDeleteDialog: deleteOpen, with the entity and the row whose dialog it is
    deleteDialog,
    \* Dashboard: the expanded rows of the summary table, the expanded cards of
    \* the allocation history and its page, and the Reports tab's selections
    expandedRows, expandedHistory, historyPage, historyPerPage, report

backendVars == <<mock, idCounter>>
listVars    == <<lists>>
filterVars  == <<allocationFilters, receiptTabFilters, activeTab>>
netVars     == <<mounted, calls, location, canModify>>
idVars      == <<assignedIds, errors, overwritten>>
obsVars     == <<idVars, opsLeft, lastDone>>
tableVars   == <<data, filterValues, sortConfig, currentPage, rowsPerPage>>
fnVars      == <<fnArg, fnRes>>
dialogVars  == <<addDialog, editDialog, deleteDialog>>
viewVars    == <<expandedRows, expandedHistory, historyPage, historyPerPage, report>>

nonTableVars == <<backendVars, listVars, filterVars, netVars, obsVars, fnVars, dialogVars, viewVars>>
nonFnVars    == <<backendVars, listVars, filterVars, netVars, obsVars, tableVars, dialogVars, viewVars>>

vars == <<backendVars, listVars, filterVars, netVars, obsVars, tableVars, fnVars,
         dialogVars, viewVars>>

Entities == {"receipts", "allocations", "expenditures"}

mockReceipts     == mock["receipts"]
mockAllocations  == mock["allocations"]
mockExpenditures == mock["expenditures"]
receiptIdCounter     == idCounter["receipts"]
allocationIdCounter  == idCounter["allocations"]
expenditureIdCounter == idCounter["expenditures"]
receipts     == lists["receipts"]
allocations  == lists["allocations"]
expenditures == lists["expenditures"]

----------------------------------------------------------------------------
(* Bounds of the model *)

FirstYear == 2021
LastYear  == 2024
\* handler invocations the user has running at once
MaxCalls == 1
\* handler invocations the user starts, from the page's first render
MaxOps == 1
\* handler invocations the user starts, from a loaded page
MaxOpsLoaded == 2
\* entries each mock store is generated with
MockCount == 1
\* requests the backend refuses
MaxErrors == 1
\* rows the parent passes to a DataTable
MaxRows == 11
MaxPages == 14

----------------------------------------------------------------------------
(* Calendar: what Date does with a day number *)

\* new Date("YYYY-MM-DD") / 86400000: the day number of a calendar date
DayOf(y, m, d) ==
    LET yy  == IF m <= 2 THEN y - 1 ELSE y
        era == yy \div 400
        yoe == yy - era * 400
        mp  == IF m > 2 THEN m - 3 ELSE m + 9
        doy == (153 * mp + 2) \div 5 + d - 1
        doe == yoe * 365 + yoe \div 4 - yoe \div 100 + doy
    IN  era * 146097 + doe - 719468

parseDate(w) == DayOf(w[1], w[2], w[3])

\* the calendar fields <<year, month (1..12), day>> of a day number
Civil(n) ==
    LET z   == n + 719468
        era == z \div 146097
        doe == z - era * 146097
        yoe == (doe - doe \div 1460 + doe \div 36524 - doe \div 146096) \div 365
        doy == doe - (365 * yoe + yoe \div 4 - yoe \div 100)
        mp  == (5 * doy + 2) \div 153
        d   == doy - (153 * mp + 2) \div 5 + 1
        m   == IF mp < 10 THEN mp + 3 ELSE mp - 9
        y   == yoe + era * 400 + (IF m <= 2 THEN 1 ELSE 0)
    IN  <<y, m, d>>

getFullYear(n) == Civil(n)[1]
\* zero-based, as Date.prototype.getMonth
getMonth(n)    == Civil(n)[2] - 1
\* date.toISOString().split("T")[0]
toISODate(n)   == Civil(n)

\* a financial year "Y-(Y+1)" is the pair <<Y, Y+1>> of the two numbers printed
getFYOffByOne(date) ==
    LET year  == getFullYear(date)
        month == getMonth(date)
    IN  IF month >= 4 THEN <<year, year + 1>> ELSE <<year - 1, year>>

getFY(date) ==
    LET year  == getFullYear(date)
        month == getMonth(date) + 1
    IN  IF month >= 4 THEN <<year, year + 1>> ELSE <<year - 1, year>>

Days == DayOf(FirstYear, 1, 1) .. DayOf(LastYear, 12, 31)

----------------------------------------------------------------------------
(* Input texts.  The value of a number input is <<>> when empty and <<n>> when it
   reads as the number n; the value of a date input is <<>> or <<year, month,
   day>>; a free text is the sequence of its characters. *)

\* Number(text), +text
NumberOf(t) == t[1]

----------------------------------------------------------------------------
(* State after construction *)

\* the elements of an array
Range(seq) == {seq[i] : i \in DOMAIN seq}

NoResult == <<"none">>
Idle     == [op |-> "idle"]

\* slots 1..4 hold the four requests of the initial load
Slots == 1 .. (4 + MaxCalls)

\* both dialogs start closed: useState(false), useState({})
Closed == [open |-> FALSE, entity |-> "", id |-> 0, formData |-> <<>>]

InitDialogs == addDialog = Closed /\ editDialog = Closed /\ deleteDialog = Closed

\* useState(new Set()), useState(1), useState(5), and the Reports tab's
\* useState(null) / useState("")
NoReport ==
    [reportType |-> "", filterType |-> "", startDate |-> <<>>, endDate |-> <<>>,
     selectedFinancialYear |-> <<>>, selectedCategory |-> "", selectedSubCategory |-> "",
     selectedDepartment |-> "", selectedReceiptCategory |-> ""]

InitView ==
    /\ expandedRows = {}
    /\ expandedHistory = {}
    /\ historyPage = 1
    /\ historyPerPage = 5
    /\ report = NoReport

InitApp ==
    /\ lists = [e \in Entities |-> <<>>]
    /\ canModify = FALSE
    /\ allocationFilters = [allocationNumber |-> <<>>, fy |-> <<>>]
    /\ receiptTabFilters = [sanctionOrder |-> <<>>, category |-> "", amountMin |-> <<>>,
                            amountMax |-> <<>>, dateFrom |-> <<>>, dateTo |-> <<>>]
    /\ activeTab = "summary"
    /\ location = "app"
    /\ mounted = FALSE
    /\ calls = [s \in Slots |-> Idle]
    /\ errors = 0
    /\ overwritten = [e \in Entities |-> FALSE]
    /\ lastDone = Idle
    /\ InitDialogs /\ InitView

InitBackendEmpty ==
    /\ mock = [e \in Entities |-> <<>>]
    /\ idCounter = [e \in Entities |-> 1]
    /\ assignedIds = [e \in Entities |-> <<>>]

InitTable ==
    /\ data = <<>>
    /\ filterValues = <<>>
    /\ sortConfig = [key |-> "none", direction |-> "desc"]
    /\ currentPage = 1
    /\ rowsPerPage = 5

InitFn == fnArg = NoResult /\ fnRes = NoResult

----------------------------------------------------------------------------
(* getFY as a function of every date of the modelled years *)

applyGetFY ==
    /\ fnRes = NoResult
    /\ fnRes' = getFY(fnArg)
    /\ UNCHANGED <<fnArg, nonFnVars>>

InitGetFY ==
    /\ InitApp /\ InitBackendEmpty /\ InitTable
    /\ fnArg \in Days
    /\ fnRes = NoResult
    /\ opsLeft = 0

NextGetFY == applyGetFY

SpecGetFY == InitGetFY /\ [][NextGetFY]_vars

\* C3: a date from 1 April of year Y to 31 March of year Y+1 is in the financial
\* year Y-(Y+1) and in no other; 31 March and 1 April of one calendar year are
\* consecutive days in different financial years.
GetFYAprilToMarch ==
    /\ fnRes # NoResult =>
         /\ \A y \in (FirstYear - 1) .. LastYear :
              (DayOf(y, 4, 1) <= fnArg /\ fnArg <= DayOf(y + 1, 3, 31)) <=> fnRes = <<y, y + 1>>
         /\ fnArg = DayOf(getFullYear(fnArg), 3, 31) => fnRes # getFY(fnArg + 1)
    /\ \A y \in FirstYear .. LastYear : DayOf(y, 4, 1) = DayOf(y, 3, 31) + 1

GetFYWitness ==
    /\ fnArg = DayOf(2023, 3, 31)
    /\ fnRes = <<2022, 2023>>
    /\ getFY(DayOf(2023, 4, 1)) = <<2023, 2024>>

----------------------------------------------------------------------------
(* DataTable: filtering, sorting and pagination of its data prop *)

\* Math.min / Math.max / Math.ceil(a / b)
Min(a, b) == IF a < b THEN a ELSE b
Max(a, b) == IF a > b THEN a ELSE b
CeilDiv(a, b) == (a + b - 1) \div b

\* Array.prototype.slice(from, to) with 0-based, end-exclusive indices
Slice(s, from, to) == SubSeq(s, from + 1, Min(to, Len(s)))

\* Array.prototype.sort with a comparator cmp(a, b) = k(a) - k(b), where k[i] is
\* the number the comparator reads off s[i]: the stable arrangement, in which
\* s[j] precedes s[i] iff its number is smaller, or equal and it stood before
Sort(s, k) ==
    LET key == SubSeq(k, 1, Len(s))
        rank(i) == 1 + Cardinality({j \in 1 .. Len(s) :
                        key[j] < key[i] \/ (key[j] = key[i] /\ j < i)})
    IN  [n \in 1 .. Len(s) |-> s[CHOOSE i \in 1 .. Len(s) : rank(i) = n]]

\* the rows the parent can pass: row i of the pool, with amounts 1..3
RowPool == [i \in 1 .. MaxRows |-> [id |-> i, amount |-> ((i * 2) % 3) + 1]]

\* the choices of the rows-per-page select
PageSizes == {5, 10, 20, 50}

\* one filter {key: "amount", type: "number"}
processed ==
    LET Keep(row) == filterValues = <<>> \/ row.amount >= NumberOf(filterValues)
        filtered  == SelectSeq(data, Keep)
    IN  IF sortConfig.key = "none" THEN filtered
        ELSE Sort(filtered, [i \in 1 .. Len(filtered) |->
                 IF sortConfig.direction = "asc" THEN filtered[i].amount
                                                 ELSE 0 - filtered[i].amount])

totalPages == Max(1, CeilDiv(Len(processed), rowsPerPage))

safePageUnclamped == currentPage

safePage == Min(currentPage, totalPages)

paginatedDataAt(page) ==
    LET start == (page - 1) * rowsPerPage
    IN  Slice(processed, start, start + rowsPerPage)

paginatedData == paginatedDataAt(safePage)

\* the "..." entry of the page-number list (page numbers start at 1)
Ellipsis == 0

\* Pagination.getPageNumbers: page numbers and "..." marks
getPageNumbersEarlyMark(cur, total) ==
    IF total <= 7 THEN [i \in 1 .. total |-> i]
    ELSE <<1>>
         \o (IF cur >= 3 THEN <<Ellipsis>> ELSE <<>>)
         \o [k \in 1 .. Max(0, Min(total - 1, cur + 1) - Max(2, cur - 1) + 1) |->
                Max(2, cur - 1) + k - 1]
         \o (IF cur < total - 2 THEN <<Ellipsis>> ELSE <<>>)
         \o <<total>>

getPageNumbers(cur, total) ==
    IF total <= 7 THEN [i \in 1 .. total |-> i]
    ELSE <<1>>
         \o (IF cur > 3 THEN <<Ellipsis>> ELSE <<>>)
         \o [k \in 1 .. Max(0, Min(total - 1, cur + 1) - Max(2, cur - 1) + 1) |->
                Max(2, cur - 1) + k - 1]
         \o (IF cur < total - 2 THEN <<Ellipsis>> ELSE <<>>)
         \o <<total>>

\* the ChevronLeft button: disabled on page 1
PrevPage ==
    /\ safePage # 1
    /\ currentPage' = safePage - 1
    /\ UNCHANGED <<data, filterValues, sortConfig, rowsPerPage>>
    /\ UNCHANGED nonTableVars

\* the ChevronRight button: disabled on the last page
NextPage ==
    /\ ~(safePage = totalPages \/ totalPages = 0)
    /\ currentPage' = safePage + 1
    /\ UNCHANGED <<data, filterValues, sortConfig, rowsPerPage>>
    /\ UNCHANGED nonTableVars

\* a page-number button
GotoPage ==
    /\ \E i \in DOMAIN getPageNumbers(safePage, totalPages) :
         /\ getPageNumbers(safePage, totalPages)[i] # Ellipsis
         /\ currentPage' = getPageNumbers(safePage, totalPages)[i]
    /\ UNCHANGED <<data, filterValues, sortConfig, rowsPerPage>>
    /\ UNCHANGED nonTableVars

\* the rows-per-page select: setRowsPerPage(n); setCurrentPage(1)
ItemsPerPageChange ==
    /\ \E n \in PageSizes : rowsPerPage' = n
    /\ currentPage' = 1
    /\ UNCHANGED <<data, filterValues, sortConfig>>
    /\ UNCHANGED nonTableVars

updateFilter ==
    /\ \E v \in {<<>>} \cup {<<n>> : n \in 1 .. 4} : filterValues' = v
    /\ currentPage' = 1
    /\ UNCHANGED <<data, sortConfig, rowsPerPage>>
    /\ UNCHANGED nonTableVars

requestSort ==
    /\ sortConfig' = [key |-> "amount",
                      direction |-> IF sortConfig.key = "amount"
                                    THEN (IF sortConfig.direction = "asc" THEN "desc" ELSE "asc")
                                    ELSE "asc"]
    /\ UNCHANGED <<data, filterValues, currentPage, rowsPerPage>>
    /\ UNCHANGED nonTableVars

\* the parent renders the table with one row more or one row less
DataGrows ==
    /\ Len(data) < MaxRows
    /\ data' = Append(data, RowPool[Len(data) + 1])
    /\ UNCHANGED <<filterValues, sortConfig, currentPage, rowsPerPage>>
    /\ UNCHANGED nonTableVars

DataShrinks ==
    /\ Len(data) > 0
    /\ data' = SubSeq(data, 1, Len(data) - 1)
    /\ UNCHANGED <<filterValues, sortConfig, currentPage, rowsPerPage>>
    /\ UNCHANGED nonTableVars

InitDataTable ==
    /\ InitApp /\ InitBackendEmpty /\ InitTable /\ InitFn
    /\ opsLeft = 0

NextDataTable ==
    \/ PrevPage \/ NextPage \/ GotoPage \/ ItemsPerPageChange
    \/ updateFilter \/ requestSort \/ DataGrows \/ DataShrinks

SpecDataTable == InitDataTable /\ [][NextDataTable]_vars

\* getPageNumbers as a function of every current page of every page count
applyGetPageNumbers ==
    /\ fnRes = NoResult
    /\ fnRes' = <<"pages", getPageNumbers(fnArg.currentPage, fnArg.totalPages)>>
    /\ UNCHANGED <<fnArg, nonFnVars>>

InitPageNumbers ==
    /\ InitApp /\ InitBackendEmpty /\ InitTable
    /\ fnArg \in {[currentPage |-> c, totalPages |-> t] : c \in 1 .. MaxPages, t \in 1 .. MaxPages}
    /\ fnArg.currentPage <= fnArg.totalPages
    /\ fnRes = NoResult
    /\ opsLeft = 0

NextPageNumbers == applyGetPageNumbers

SpecPageNumbers == InitPageNumbers /\ [][NextPageNumbers]_vars

\* C23: the page-number list is strictly increasing in its numbers, holds 1,
\* the last page and the current page, is all the pages when there are at
\* most 7, starts and ends with a number, and has a "..." mark between two
\* listed numbers exactly when they are not consecutive.
PageNumbersList ==
    fnRes # NoResult =>
       LET pages == fnRes[2]
           n     == Len(pages)
           IsNum(x) == x # Ellipsis
           nums  == SelectSeq(pages, IsNum)
       IN  /\ \A i \in 1 .. (Len(nums) - 1) : nums[i] < nums[i + 1]
           /\ {1, fnArg.totalPages, fnArg.currentPage} \subseteq Range(nums)
           /\ Range(nums) \subseteq 1 .. fnArg.totalPages
           /\ fnArg.totalPages <= 7 => pages = [i \in 1 .. fnArg.totalPages |-> i]
           /\ pages[1] # Ellipsis /\ pages[n] # Ellipsis
           /\ \A i \in 1 .. (n - 1) :
                 IF pages[i] # Ellipsis /\ pages[i + 1] # Ellipsis
                 THEN pages[i + 1] = pages[i] + 1
                 ELSE pages[i] = Ellipsis =>
                         /\ pages[i - 1] # Ellipsis /\ pages[i + 1] # Ellipsis
                         /\ pages[i + 1] > pages[i - 1] + 1

\* a list with a mark on both sides of the current page
PageNumbersWitness ==
    /\ fnArg = [currentPage |-> 5, totalPages |-> 9]
    /\ fnRes # NoResult
    /\ fnRes[2] = <<1, Ellipsis, 4, 5, 6, Ellipsis, 9>>

RECURSIVE PagesFrom(_)
PagesFrom(p) == IF p > totalPages THEN <<>> ELSE paginatedDataAt(p) \o PagesFrom(p + 1)

\* C8: totalPages is the least number >= 1 of pages of rowsPerPage rows that hold
\* all processed rows; the displayed page lies in 1..totalPages and has at most
\* rowsPerPage rows; the pages 1..totalPages, one after the other, are the
\* processed rows, each exactly once.
PaginationInvariant ==
    /\ totalPages >= 1
    /\ totalPages * rowsPerPage >= Len(processed)
    /\ totalPages > 1 => (totalPages - 1) * rowsPerPage < Len(processed)
    /\ 1 <= safePage /\ safePage <= totalPages
    /\ Len(paginatedData) <= rowsPerPage
    /\ PagesFrom(1) = processed
    /\ \A i, j \in 1 .. Len(processed) : processed[i] = processed[j] => i = j

\* the table stood on page 3 and the data shrank to two pages
PaginationWitness ==
    /\ currentPage = 3
    /\ totalPages = 2
    /\ Len(paginatedData) \in 1 .. rowsPerPage

----------------------------------------------------------------------------
(* Ledger data: models/data, the entry forms and the request bodies *)

categories  == <<"OH-31", "OH-35">>
CategorySet == {categories[i] : i \in DOMAIN categories}
subCategoriesMap ==
    [c \in CategorySet |-> IF c = categories[1] THEN <<"Salaries", "Pension">>
                                                ELSE <<"Equipment">>]
departments == <<"All", "CSE", "ECE">>

ERP_LOGIN_URL == "https://nitj.ac.in"

\* {...r, ...body}
Merge(r, body) ==
    [k \in DOMAIN r \cup DOMAIN body |-> IF k \in DOMAIN body THEN body[k] ELSE r[k]]

\* Number(x) || 0 on a number
NumberOrZero(x) == IF x = 0 THEN 0 ELSE x

flatToAllocation(flat) ==
    [date |-> flat.date,
     allocationNumber |-> flat.allocationNumber,
     categoryAmounts |-> [i \in DOMAIN categories |->
         [category |-> categories[i],
          allocatedAmount |-> NumberOrZero(flat.amount[categories[i]])]]]

\* the JSON body of a create request, from the values the Add dialog hands over
createPayload(e, form) ==
    CASE e = "receipts" ->
           [date |-> toISODate(form.date), sanctionOrder |-> form.sanctionOrder,
            category |-> form.category, amount |-> form.amount,
            attachment |-> form.attachment]
      [] e = "expenditures" ->
           [date |-> toISODate(form.date), billNo |-> form.billNo,
            voucherNo |-> form.voucherNo, category |-> form.category,
            subCategory |-> form.subCategory, department |-> form.department,
            amount |-> form.amount, attachment |-> form.attachment]
      [] e = "allocations" ->
           LET body == flatToAllocation(form)
           IN  [date |-> toISODate(body.date), allocationNumber |-> body.allocationNumber,
                categoryAmounts |-> body.categoryAmounts]

\* receiptToBody / expenditureToBody / allocationToBody of {...form, id}
updatePayload(e, id, form) == Merge([id |-> id], createPayload(e, form))

\* what fetchReceipts / fetchExpenditures / fetchAllocations make of a response list
toClient(e, list) ==
    [i \in DOMAIN list |->
        IF e = "allocations"
        THEN [list[i] EXCEPT !.date = parseDate(list[i].date)]
        ELSE [list[i] EXCEPT !.date = parseDate(list[i].date),
                             !.amount = NumberOrZero(list[i].amount)]]

Ids(list) == {list[i].id : i \in DOMAIN list}

----------------------------------------------------------------------------
(* Derived views of the Dashboard (useMemo) *)

\* String.prototype.toLowerCase, character by character
LowerChar(c) ==
    CASE c = "A" -> "a" [] c = "B" -> "b" [] c = "S" -> "s" [] c = "V" -> "v" [] OTHER -> c
toLowerCase(t) == [i \in DOMAIN t |-> LowerChar(t[i])]

\* String.prototype.includes
includes(hay, needle) ==
    \E i \in 0 .. (Len(hay) - Len(needle)) : SubSeq(hay, i + 1, i + Len(needle)) = needle

\* reduce((s, x) => s + x, 0) over a sequence of numbers
RECURSIVE SumSeq(_)
SumSeq(s) == IF s = <<>> THEN 0 ELSE Head(s) + SumSeq(Tail(s))

Amounts(s) == [i \in DOMAIN s |-> s[i].amount]

\* Array.from(new Set(s)): the distinct elements in order of first occurrence
Distinct(s) ==
    LET First(i) == \A j \in 1 .. (i - 1) : s[j] # s[i]
        idx == SelectSeq([i \in DOMAIN s |-> i], First)
    IN  [k \in DOMAIN idx |-> s[idx[k]]]

\* Array.prototype.reverse
Reverse(s) == [i \in DOMAIN s |-> s[Len(s) + 1 - i]]

\* Date.getTime() of a day number and the instant that
\* end.setHours(23, 59, 59, 999) leaves, both counted in minutes so that
\* they stay within TLC's integers
getTime(n) == n * 1440
endOfDay(n) == n * 1440 + 1439

filteredReceiptTabDataNoCategory ==
    LET f == receiptTabFilters
        Keep(r) ==
            /\ ~(f.sanctionOrder # <<>> /\
                 ~includes(toLowerCase(r.sanctionOrder), toLowerCase(f.sanctionOrder)))
            /\ ~(f.amountMin # <<>> /\ r.amount < NumberOf(f.amountMin))
            /\ ~(f.amountMax # <<>> /\ r.amount > NumberOf(f.amountMax))
            /\ ~(f.dateFrom # <<>> /\ getTime(r.date) < getTime(parseDate(f.dateFrom)))
            /\ ~(f.dateTo # <<>> /\ getTime(r.date) > endOfDay(parseDate(f.dateTo)))
    IN  SelectSeq(receipts, Keep)

filteredReceiptTabData ==
    LET f == receiptTabFilters
        Keep(r) ==
            /\ ~(f.sanctionOrder # <<>> /\
                 ~includes(toLowerCase(r.sanctionOrder), toLowerCase(f.sanctionOrder)))
            /\ ~(f.category # "" /\ r.category # f.category)
            /\ ~(f.amountMin # <<>> /\ r.amount < NumberOf(f.amountMin))
            /\ ~(f.amountMax # <<>> /\ r.amount > NumberOf(f.amountMax))
            /\ ~(f.dateFrom # <<>> /\ getTime(r.date) < getTime(parseDate(f.dateFrom)))
            /\ ~(f.dateTo # <<>> /\ getTime(r.date) > endOfDay(parseDate(f.dateTo)))
    IN  SelectSeq(receipts, Keep)

summaryCategoryDataPlus ==
    [i \in DOMAIN categories |->
        LET category == categories[i]
            InCat(x) == x.category = category
            totalReceipts    == SumSeq(Amounts(SelectSeq(receipts, InCat)))
            totalExpenditure == SumSeq(Amounts(SelectSeq(expenditures, InCat)))
        IN  [category |-> category, totalReceipts |-> totalReceipts,
             totalExpenditure |-> totalExpenditure,
             balance |-> totalReceipts + totalExpenditure,
             subCategories |-> <<>>]]

summaryCategoryData ==
    [i \in DOMAIN categories |->
        LET category == categories[i]
            InCat(x) == x.category = category
            totalReceipts    == SumSeq(Amounts(SelectSeq(receipts, InCat)))
            totalExpenditure == SumSeq(Amounts(SelectSeq(expenditures, InCat)))
            subs == subCategoriesMap[category]
        IN  [category |-> category, totalReceipts |-> totalReceipts,
             totalExpenditure |-> totalExpenditure,
             balance |-> totalReceipts - totalExpenditure,
             subCategories |-> [k \in DOMAIN subs |->
                LET InSub(x) == x.category = category /\ x.subCategory = subs[k]
                    subExpenditure == SumSeq(Amounts(SelectSeq(expenditures, InSub)))
                IN  [subCategory |-> subs[k], parentCategory |-> category,
                     totalReceipts |-> 0, totalExpenditure |-> subExpenditure,
                     balance |-> 0 - subExpenditure]]]]

RECURSIVE ReduceTotals(_)
ReduceTotals(rows) ==
    IF rows = <<>> THEN [totalReceipts |-> 0, totalExpenditure |-> 0, balance |-> 0]
    ELSE LET acc == ReduceTotals(SubSeq(rows, 1, Len(rows) - 1))
             row == rows[Len(rows)]
         IN  [totalReceipts |-> acc.totalReceipts + row.totalReceipts,
              totalExpenditure |-> acc.totalExpenditure + row.totalExpenditure,
              balance |-> acc.balance + row.balance]

grandTotals == ReduceTotals(summaryCategoryData)

\* the financial years of all dates, latest first ("Y-(Y+1)" strings of four-digit
\* years sort as their first years do)
financialYears ==
    LET dates == [i \in DOMAIN receipts |-> receipts[i].date]
                 \o [i \in DOMAIN expenditures |-> expenditures[i].date]
                 \o [i \in DOMAIN allocations |-> allocations[i].date]
        fys   == Distinct([i \in DOMAIN dates |-> getFY(dates[i])])
    IN  Reverse(Sort(fys, [i \in DOMAIN fys |-> fys[i][1]]))

\* a.categoryAmounts.find(ca => ca.category === cat)?.allocatedAmount ?? 0
AllocatedFor(a, cat) ==
    LET Is(ca) == ca.category = cat
        found == SelectSeq(a.categoryAmounts, Is)
    IN  IF found = <<>> THEN 0 ELSE found[1].allocatedAmount

fyCategorySummaryAnyYear ==
    LET n == Len(categories)
    IN  [k \in 1 .. (Len(financialYears) * n) |->
            LET fy  == financialYears[((k - 1) \div n) + 1]
                cat == categories[((k - 1) % n) + 1]
                InFy(x)    == getFY(x.date) = fy
                InCat(x)   == x.category = cat
                inFy       == SelectSeq(allocations, InFy)
            IN  [fy |-> fy, category |-> cat,
                 allocated   |-> SumSeq([i \in DOMAIN inFy |-> AllocatedFor(inFy[i], cat)]),
                 receipts    |-> SumSeq(Amounts(SelectSeq(receipts, InCat))),
                 expenditure |-> SumSeq(Amounts(SelectSeq(expenditures, InCat)))]]

fyCategorySummary ==
    LET n == Len(categories)
    IN  [k \in 1 .. (Len(financialYears) * n) |->
            LET fy  == financialYears[((k - 1) \div n) + 1]
                cat == categories[((k - 1) % n) + 1]
                InFy(x)    == getFY(x.date) = fy
                InFyCat(x) == getFY(x.date) = fy /\ x.category = cat
                inFy       == SelectSeq(allocations, InFy)
            IN  [fy |-> fy, category |-> cat,
                 allocated   |-> SumSeq([i \in DOMAIN inFy |-> AllocatedFor(inFy[i], cat)]),
                 receipts    |-> SumSeq(Amounts(SelectSeq(receipts, InFyCat))),
                 expenditure |-> SumSeq(Amounts(SelectSeq(expenditures, InFyCat)))]]

allocationsWithIndex ==
    [i \in DOMAIN allocations |-> Merge(allocations[i], [index |-> i - 1])]

filteredAllocations ==
    LET f == allocationFilters
        Keep(a) ==
            /\ ~(f.allocationNumber # <<>> /\
                 ~includes(toLowerCase(a.allocationNumber), toLowerCase(f.allocationNumber)))
            /\ ~(f.fy # <<>> /\ getFY(a.date) # f.fy)
    IN  SelectSeq(allocationsWithIndex, Keep)

\* one table per allocation number of src (allocation numbers are not
\* integer-like strings, so Object.entries keeps their insertion order)
TablesOfOldestFirst(src) ==
    LET numbers == Distinct([i \in DOMAIN src |-> src[i].allocationNumber])
        Table(allocNo) ==
            LET Has(a)  == a.allocationNumber = allocNo
                entries == SelectSeq(src, Has)
                sorted  == Sort(entries, [i \in DOMAIN entries |-> getTime(entries[i].date)])
                latest  == sorted[1]
            IN  [allocationNumber |-> allocNo, date |-> latest.date, entry |-> latest,
                 rows |-> latest.categoryAmounts,
                 total |-> SumSeq([i \in DOMAIN latest.categoryAmounts |->
                                      latest.categoryAmounts[i].allocatedAmount])]
        tables == [k \in DOMAIN numbers |-> Table(numbers[k])]
    IN  Sort(tables, [k \in DOMAIN tables |-> 0 - getTime(tables[k].date)])

TablesOf(src) ==
    LET numbers == Distinct([i \in DOMAIN src |-> src[i].allocationNumber])
        Table(allocNo) ==
            LET Has(a)  == a.allocationNumber = allocNo
                entries == SelectSeq(src, Has)
                sorted  == Sort(entries, [i \in DOMAIN entries |-> 0 - getTime(entries[i].date)])
                latest  == sorted[1]
            IN  [allocationNumber |-> allocNo, date |-> latest.date, entry |-> latest,
                 rows |-> latest.categoryAmounts,
                 total |-> SumSeq([i \in DOMAIN latest.categoryAmounts |->
                                      latest.categoryAmounts[i].allocatedAmount])]
        tables == [k \in DOMAIN numbers |-> Table(numbers[k])]
    IN  Sort(tables, [k \in DOMAIN tables |-> 0 - getTime(tables[k].date)])

allocationTables == TablesOf(filteredAllocations)

latestAllocationTable    == IF allocationTables = <<>> THEN <<>> ELSE <<allocationTables[1]>>
historyAllocationTables  == Slice(allocationTables, 1, Len(allocationTables))

----------------------------------------------------------------------------
(* Requests in flight.  An invocation occupies a slot from its call to its
   return; pc "request" waits for the server, pc "response" for the await to
   resume.  alone records that no other invocation was in flight during it. *)

Busy == {s \in Slots : calls[s].op # "idle"}
UserBusy == {s \in Busy : s > 4}
FreeSlot == CHOOSE s \in Slots : s > 4 /\ calls[s].op = "idle" /\
                \A t \in Slots : (t > 4 /\ calls[t].op = "idle") => s <= t

Request(op, e, phase, route, body) ==
    [op |-> op, entity |-> e, phase |-> phase, pc |-> "request", route |-> route,
     body |-> body, status |-> 0, data |-> <<>>, statuses |-> <<>>, mres |-> <<>>,
     alone |-> Busy = {}, overtaken |-> FALSE]

\* a call starts in the free slot; the invocations in flight are no longer alone
Start(call) ==
    /\ calls' = [s \in Slots |->
                   IF s = FreeSlot THEN call
                   ELSE IF calls[s].op = "idle" THEN Idle
                   ELSE [calls[s] EXCEPT !.alone = FALSE]]
    /\ opsLeft > 0
    /\ opsLeft' = opsLeft - 1
    /\ lastDone' = Idle

uiVars == <<filterVars, tableVars, fnVars, dialogVars, viewVars>>

\* useEffect on mount: fetchReceipts, fetchExpenditures, fetchAllocations, canModify
mount ==
    /\ ~mounted
    /\ mounted' = TRUE
    /\ calls' = [s \in Slots |->
         CASE s = 1 -> [Request("fetch", "receipts", "read", "read", <<>>) EXCEPT !.alone = FALSE]
           [] s = 2 -> [Request("fetch", "expenditures", "read", "read", <<>>) EXCEPT !.alone = FALSE]
           [] s = 3 -> [Request("fetch", "allocations", "read", "read", <<>>) EXCEPT !.alone = FALSE]
           [] s = 4 -> [Request("canModify", "none", "read", "canModify", <<>>) EXCEPT !.alone = FALSE]
           [] OTHER -> Idle]
    /\ UNCHANGED <<backendVars, listVars, location, canModify, obsVars, uiVars>>

\* TABS and setActiveTab: the tab buttons
Tabs == {"summary", "allocations", "receipts", "expenditures", "reports"}

setActiveTab(tab) ==
    /\ location = "app" /\ mounted
    /\ tab # activeTab
    /\ activeTab' = tab
    /\ UNCHANGED <<backendVars, listVars, netVars, obsVars, allocationFilters,
                   receiptTabFilters, tableVars, fnVars, dialogVars, viewVars>>

\* the tab whose section renders the Add dialog of an entity
AddTab(e) == e

\* the ids whose Edit / Delete dialog is on screen: the rows of the entity's
\* tab and of the reports tab, and the cards of the allocation tables
Displayed(e) ==
    CASE e = "receipts" ->
           IF activeTab = "receipts" THEN Ids(filteredReceiptTabData)
           ELSE IF activeTab = "reports" THEN Ids(receipts) ELSE {}
      [] e = "expenditures" ->
           IF activeTab \in {"expenditures", "reports"} THEN Ids(expenditures) ELSE {}
      [] e = "allocations" ->
           IF activeTab = "allocations"
           THEN {allocationTables[k].entry.id : k \in DOMAIN allocationTables} ELSE {}

\* the files a dialog's attachment field can hold
Files == {"File(bill.pdf)"}

\* isFileAttachment: v instanceof File
isFileAttachment(v) == v \in Files

\* the first request of an Add or Save handler: receipts and expenditures
\* upload a File attachment before anything else; the payload is completed
\* with the attachment's URL when the upload has returned
FirstRequest(op, e, form, route, payload) ==
    IF e # "allocations" /\ isFileAttachment(form.attachment)
    THEN Request(op, e, "upload", "upload", payload)
    ELSE Request(op, e, "mutate", route, payload)

\* the dialogs are rendered only while canModify
handleAddUngated(e, form) ==
    /\ location = "app" /\ mounted
    /\ activeTab = AddTab(e)
    /\ Cardinality(UserBusy) < MaxCalls
    /\ Start(FirstRequest("handleAdd", e, form, "create", createPayload(e, form)))
    /\ UNCHANGED <<backendVars, listVars, mounted, location, canModify, idVars, uiVars>>

handleAdd(e, form) ==
    /\ location = "app" /\ mounted /\ canModify
    /\ activeTab = AddTab(e)
    /\ Cardinality(UserBusy) < MaxCalls
    /\ Start(FirstRequest("handleAdd", e, form, "create", createPayload(e, form)))
    /\ UNCHANGED <<backendVars, listVars, mounted, location, canModify, idVars, uiVars>>

\* the same handler as the onAdd prop of an AddEntryDialog, which closes itself
onAdd(e, form) ==
    /\ location = "app" /\ mounted /\ canModify
    /\ activeTab = AddTab(e)
    /\ Cardinality(UserBusy) < MaxCalls
    /\ Start(FirstRequest("handleAdd", e, form, "create", createPayload(e, form)))
    /\ UNCHANGED <<backendVars, listVars, mounted, location, canModify, idVars,
                   filterVars, tableVars, fnVars, viewVars>>

\* the Edit dialog of a displayed row: handleSave(row.id)(formData)
handleSave(e, id, form) ==
    /\ location = "app" /\ mounted /\ canModify
    /\ id \in Displayed(e)
    /\ Cardinality(UserBusy) < MaxCalls
    /\ Start(FirstRequest("handleSave", e, form, "update", updatePayload(e, id, form)))
    /\ UNCHANGED <<backendVars, listVars, mounted, location, canModify, idVars, uiVars>>

\* the same handler as the onSave prop of the EditDeleteDialog of row id
onSave(e, id, form) ==
    /\ location = "app" /\ mounted /\ canModify
    /\ id \in Displayed(e)
    /\ Cardinality(UserBusy) < MaxCalls
    /\ Start(FirstRequest("handleSave", e, form, "update", updatePayload(e, id, form)))
    /\ UNCHANGED <<backendVars, listVars, mounted, location, canModify, idVars,
                   filterVars, tableVars, fnVars, viewVars>>

\* the Delete confirmation of a displayed row: handleDelete(row.id)()
handleDelete(e, id) ==
    /\ location = "app" /\ mounted /\ canModify
    /\ id \in Displayed(e)
    /\ Cardinality(UserBusy) < MaxCalls
    /\ Start(Request("handleDelete", e, "mutate", "delete", id))
    /\ UNCHANGED <<backendVars, listVars, mounted, location, canModify, idVars, uiVars>>

\* the same handler as the onDelete prop of the EditDeleteDialog of row id
onDelete(e, id) ==
    /\ location = "app" /\ mounted /\ canModify
    /\ id \in Displayed(e)
    /\ Cardinality(UserBusy) < MaxCalls
    /\ Start(Request("handleDelete", e, "mutate", "delete", id))
    /\ UNCHANGED <<backendVars, listVars, mounted, location, canModify, idVars,
                   filterVars, tableVars, fnVars, viewVars>>

handleReceiptAdd(r)         == handleAdd("receipts", r)
handleReceiptSave(id, r)    == handleSave("receipts", id, r)
handleReceiptDelete(id)     == handleDelete("receipts", id)
handleExpenditureAdd(x)     == handleAdd("expenditures", x)
handleExpenditureSave(id, x) == handleSave("expenditures", id, x)
handleExpenditureDelete(id) == handleDelete("expenditures", id)
handleAllocationAdd(f)      == handleAdd("allocations", f)
handleAllocationSave(id, f) == handleSave("allocations", id, f)
handleAllocationDelete(id)  == handleDelete("allocations", id)

----------------------------------------------------------------------------
(* The backend: lib/mock's routes, and a server that answers with an error *)

Waiting(s, route) ==
    /\ calls[s].op # "idle"
    /\ calls[s].pc = "request"
    /\ calls[s].route = route

\* the answer reaches the client; statuses and mres observe the answers the
\* invocation has had, and the answer to its mutation
Respond(s, status, respData) ==
    calls' = [calls EXCEPT ![s].pc = "response", ![s].status = status, ![s].data = respData,
                           ![s].statuses = Append(@, status),
                           ![s].mres = IF calls[s].phase = "mutate" THEN respData ELSE @]

\* the answer to a mutation; overtaken observes the read responses of the
\* entity that the client has not processed yet
RespondMutation(s, status, respData) ==
    calls' = [t \in Slots |->
        IF t = s
        THEN [calls[s] EXCEPT !.pc = "response", !.status = status, !.data = respData,
                              !.statuses = Append(@, status), !.mres = respData]
        ELSE IF /\ calls[t].op # "idle" /\ calls[t].entity = calls[s].entity
                /\ calls[t].route = "read" /\ calls[t].pc = "response"
             THEN [calls[t] EXCEPT !.overtaken = TRUE]
             ELSE calls[t]]

\* receiptIdCounter++ / allocationIdCounter++ / expenditureIdCounter++
newIdFromLength(e) == Len(mock[e]) + 1

newId(e) == idCounter[e]

routeCanModify(s) ==
    /\ Waiting(s, "canModify")
    /\ \E allowed \in BOOLEAN : Respond(s, 200, [allowed |-> allowed])
    /\ UNCHANGED <<backendVars, listVars, mounted, location, canModify, obsVars, uiVars>>

routeRead(s) ==
    /\ Waiting(s, "read")
    /\ Respond(s, 200, [data |-> mock[calls[s].entity]])
    /\ UNCHANGED <<backendVars, listVars, mounted, location, canModify, obsVars, uiVars>>

routeCreate(s) ==
    /\ Waiting(s, "create")
    /\ LET e     == calls[s].entity
           body  == calls[s].body
           entry == IF e = "allocations" THEN Merge(body, [id |-> newId(e)])
                    ELSE Merge(body, [id |-> newId(e), amount |-> NumberOf(<<body.amount>>)])
       IN  /\ mock' = [mock EXCEPT ![e] = Append(@, entry)]
           /\ idCounter' = [idCounter EXCEPT ![e] = @ + 1]
           /\ assignedIds' = [assignedIds EXCEPT ![e] = Append(@, entry.id)]
           /\ RespondMutation(s, 200, [success |-> TRUE, id |-> entry.id])
    /\ UNCHANGED <<listVars, mounted, location, canModify, errors, overwritten, opsLeft, lastDone,
                   uiVars>>

routeUpdateUpsert(s) ==
    /\ Waiting(s, "update")
    /\ LET e    == calls[s].entity
           body == calls[s].body
       IN  /\ mock' = [mock EXCEPT ![e] =
                 IF body.id \in Ids(@)
                 THEN [i \in DOMAIN @ |-> IF @[i].id = body.id THEN Merge(@[i], body) ELSE @[i]]
                 ELSE Append(@, body)]
           /\ RespondMutation(s, 200, [success |-> TRUE, hit |-> body.id \in Ids(mock[e])])
    /\ UNCHANGED <<idCounter, listVars, mounted, location, canModify, obsVars, uiVars>>

routeUpdate(s) ==
    /\ Waiting(s, "update")
    /\ LET e    == calls[s].entity
           body == calls[s].body
       IN  /\ mock' = [mock EXCEPT ![e] =
                 [i \in DOMAIN @ |-> IF @[i].id = body.id THEN Merge(@[i], body) ELSE @[i]]]
           /\ RespondMutation(s, 200, [success |-> TRUE, hit |-> body.id \in Ids(mock[e])])
    /\ UNCHANGED <<idCounter, listVars, mounted, location, canModify, obsVars, uiVars>>

routeDelete(s) ==
    /\ Waiting(s, "delete")
    /\ LET e  == calls[s].entity
           id == calls[s].body
           Other(r) == r.id # id
       IN  /\ mock' = [mock EXCEPT ![e] = SelectSeq(@, Other)]
           /\ RespondMutation(s, 200, [success |-> TRUE, hit |-> id \in Ids(mock[e])])
    /\ UNCHANGED <<idCounter, listVars, mounted, location, canModify, obsVars, uiVars>>

\* a backend that refuses: 401 (no session) or 500, the stores untouched
\* the urls upload.php answers with: the mock's, and a stored file's
UploadUrls == {"", "uploads/bill.pdf"}

\* upload.php
routeUpload(s) ==
    /\ Waiting(s, "upload")
    /\ \E url \in UploadUrls : Respond(s, 200, [url |-> url])
    /\ UNCHANGED <<backendVars, listVars, mounted, location, canModify, idVars,
                   opsLeft, lastDone, uiVars>>

respondError(s) ==
    /\ calls[s].op # "idle"
    /\ calls[s].pc = "request"
    /\ errors < MaxErrors
    /\ errors' = errors + 1
    /\ \E status \in {401, 500} : Respond(s, status, <<>>)
    /\ UNCHANGED <<backendVars, listVars, mounted, location, canModify, assignedIds,
                   overwritten,
                   opsLeft, lastDone, uiVars>>

----------------------------------------------------------------------------
(* The client resumes after an await *)

\* Response.ok
Ok(status) == status \in 200 .. 299

\* apiFetch: a 401 redirects and throws, any other response is returned
apiFetchReturnsAll(status) == "return"

apiFetch(status) == IF status = 401 THEN "throw" ELSE "return"

\* parseList: the array itself, or the data field of the envelope
parseListArrayOnly(d) == <<>>

parseList(d) == d.data

\* an invocation returns; lastDone observes the handlers' returns
Return(s, outcome) ==
    /\ calls' = [calls EXCEPT ![s] = Idle]
    /\ lastDone' = IF s <= 4 THEN lastDone ELSE
                   [op |-> calls[s].op, entity |-> calls[s].entity, body |-> calls[s].body,
                    mres |-> calls[s].mres, statuses |-> calls[s].statuses,
                    alone |-> calls[s].alone, outcome |-> outcome]
    /\ UNCHANGED opsLeft

Resuming(s, phase) ==
    /\ calls[s].op # "idle"
    /\ calls[s].pc = "response"
    /\ calls[s].phase = phase

\* a handler after `attachmentUrl = await uploadAttachment(...)`: a refused
\* upload throws out of the handler, an accepted one gives the payload its url
uploadResumeIgnoresFailure(s) ==
    /\ Resuming(s, "upload")
    /\ calls' = [calls EXCEPT ![s].phase = "mutate", ![s].pc = "request",
                               ![s].route = IF calls[s].op = "handleAdd"
                                            THEN "create" ELSE "update",
                               ![s].body.attachment = "",
                               ![s].status = 0, ![s].data = <<>>]
    /\ UNCHANGED <<opsLeft, lastDone>>
    /\ UNCHANGED <<backendVars, listVars, mounted, location, canModify, idVars, uiVars>>

uploadResume(s) ==
    /\ Resuming(s, "upload")
    /\ IF Ok(calls[s].status)
       THEN /\ calls' = [calls EXCEPT ![s].phase = "mutate", ![s].pc = "request",
                                      ![s].route = IF calls[s].op = "handleAdd"
                                                   THEN "create" ELSE "update",
                                      ![s].body.attachment = calls[s].data.url,
                                      ![s].status = 0, ![s].data = <<>>]
            /\ UNCHANGED <<opsLeft, lastDone>>
       ELSE Return(s, "upload failed")
    /\ UNCHANGED <<backendVars, listVars, mounted, location, canModify, idVars, uiVars>>

\* a handler after `const res = await fetch(...)`: if (res.ok) await fetch...()
handlerResumeNoRefetch(s) ==
    /\ Resuming(s, "mutate")
    /\ Return(s, "no refetch")
    /\ UNCHANGED <<backendVars, listVars, mounted, location, canModify, idVars, uiVars>>

handlerResumeAlwaysRefetch(s) ==
    /\ Resuming(s, "mutate")
    /\ calls' = [calls EXCEPT ![s].phase = "read", ![s].pc = "request",
                               ![s].route = "read",
                               ![s].status = 0, ![s].data = <<>>]
    /\ UNCHANGED <<opsLeft, lastDone>>
    /\ UNCHANGED <<backendVars, listVars, mounted, location, canModify, idVars, uiVars>>

handlerResume(s) ==
    /\ Resuming(s, "mutate")
    /\ IF Ok(calls[s].status)
       THEN /\ calls' = [calls EXCEPT ![s].phase = "read", ![s].pc = "request",
                                      ![s].route = "read",
                                      ![s].status = 0, ![s].data = <<>>]
            /\ UNCHANGED <<opsLeft, lastDone>>
       ELSE Return(s, "no refetch")
    /\ UNCHANGED <<backendVars, listVars, mounted, location, canModify, idVars, uiVars>>

\* fetchReceipts / fetchExpenditures / fetchAllocations after `await apiFetch(...)`
fetchResumeSetsReceipts(s) ==
    /\ Resuming(s, "read")
    /\ calls[s].route = "read"
    /\ lists' = [lists EXCEPT !["receipts"] = toClient(calls[s].entity, calls[s].data.data)]
    /\ Return(s, "set")
    /\ UNCHANGED <<backendVars, mounted, canModify, location, idVars, uiVars>>

fetchResume(s) ==
    /\ Resuming(s, "read")
    /\ calls[s].route = "read"
    /\ LET e == calls[s].entity
           status == calls[s].status
       IN  CASE apiFetch(status) = "throw" ->
                  /\ location' = ERP_LOGIN_URL
                  /\ Return(s, "threw")
                  /\ UNCHANGED <<lists, overwritten>>
             [] apiFetch(status) = "return" /\ ~Ok(status) ->
                  /\ Return(s, "not ok")
                  /\ UNCHANGED <<lists, location, overwritten>>
             [] OTHER ->
                  /\ lists' = [lists EXCEPT ![e] = toClient(e, parseList(calls[s].data))]
                  /\ overwritten' = [overwritten EXCEPT ![e] = @ \/ calls[s].overtaken]
                  /\ Return(s, "set")
                  /\ UNCHANGED location
    /\ UNCHANGED <<backendVars, mounted, canModify, assignedIds, errors, uiVars>>

\* apiFetch("canModify.php").then(res => res.json()).then(setCanModify).catch(...);
\* an error body carries no allowed field
canModifyResume(s) ==
    /\ Resuming(s, "read")
    /\ calls[s].route = "canModify"
    /\ LET status == calls[s].status
       IN  CASE apiFetch(status) = "throw" ->
                  /\ location' = ERP_LOGIN_URL
                  /\ canModify' = FALSE
                  /\ Return(s, "threw")
             [] apiFetch(status) = "return" /\ ~Ok(status) ->
                  /\ canModify' = FALSE
                  /\ Return(s, "not ok")
                  /\ UNCHANGED location
             [] OTHER ->
                  /\ canModify' = calls[s].data.allowed
                  /\ Return(s, "set")
                  /\ UNCHANGED location
    /\ UNCHANGED <<backendVars, listVars, mounted, idVars, uiVars>>

----------------------------------------------------------------------------
(* The dashboard against its backend *)

D1 == DayOf(2023, 3, 31)
D2 == DayOf(2023, 4, 1)

ReceiptForm(d, so, c, a) ==
    [date |-> d, sanctionOrder |-> so, category |-> c, amount |-> a, attachment |-> ""]
ExpenditureForm(d, b, v, c, sc, dep, a) ==
    [date |-> d, billNo |-> b, voucherNo |-> v, category |-> c, subCategory |-> sc,
     department |-> dep, amount |-> a, attachment |-> ""]
AllocationForm(d, no, a1, a2) ==
    [date |-> d, allocationNumber |-> no,
     amount |-> [c \in CategorySet |-> IF c = categories[1] THEN a1 ELSE a2]]

\* the values the dialogs are filled with
Forms(e) ==
    CASE e = "receipts" ->
           {ReceiptForm(D1, <<"S", "1">>, categories[1], 100),
            ReceiptForm(D2, <<"s", "2">>, categories[2], 250)}
      [] e = "expenditures" ->
           {ExpenditureForm(D1, <<"B", "1">>, <<"V", "1">>, categories[1],
                            subCategoriesMap[categories[1]][1], departments[2], 40),
            ExpenditureForm(D2, <<"B", "2">>, <<"V", "2">>, categories[2],
                            subCategoriesMap[categories[2]][1], departments[3], 70)}
      [] e = "allocations" ->
           {AllocationForm(D1, <<"A", "1">>, 500, 300),
            AllocationForm(D2, <<"A", "1">>, 600, 0)}

\* the ids a store can have handed out
IdRange == 1 .. (MockCount + MaxOpsLoaded)

\* generateMockReceipts / generateMockAllocations / generateMockExpenditures:
\* MockCount entries with ids 1..MockCount; the contents are drawn at random,
\* here one draw per seed
Seeds == {0, 1}

Pick(S, k) ==
    LET RECURSIVE Nth(_, _)
        Nth(T, n) == LET x == CHOOSE y \in T : TRUE
                     IN  IF n = 0 \/ T = {x} THEN x ELSE Nth(T \ {x}, n - 1)
    IN  Nth(S, k % Cardinality(S))

generateMock(e, forms, seed) ==
    [i \in 1 .. MockCount |-> Merge(createPayload(e, Pick(forms, seed + i)), [id |-> i])]

\* the same, with a file chosen in the attachment field of one of them
DialogForms(e) ==
    IF e = "allocations" THEN Forms(e)
    ELSE Forms(e) \cup {[Pick(Forms(e), 0) EXCEPT !.attachment = f] : f \in Files}

InitMock ==
    /\ \E seed \in Seeds : mock = [e \in Entities |-> generateMock(e, Forms(e), seed)]
    /\ idCounter = [e \in Entities |-> Len(mock[e]) + 1]
    /\ assignedIds = [e \in Entities |-> [i \in 1 .. MockCount |-> i]]

Init == InitApp /\ InitMock /\ InitTable /\ InitFn /\ opsLeft = MaxOps

Next ==
    \/ mount
    \/ \E tab \in Tabs : setActiveTab(tab)
    \/ \E r \in DialogForms("receipts") : handleReceiptAdd(r)
    \/ \E id \in IdRange, r \in DialogForms("receipts") : handleReceiptSave(id, r)
    \/ \E id \in IdRange : handleReceiptDelete(id)
    \/ \E x \in DialogForms("expenditures") : handleExpenditureAdd(x)
    \/ \E id \in IdRange, x \in DialogForms("expenditures") : handleExpenditureSave(id, x)
    \/ \E id \in IdRange : handleExpenditureDelete(id)
    \/ \E f \in Forms("allocations") : handleAllocationAdd(f)
    \/ \E id \in IdRange, f \in Forms("allocations") : handleAllocationSave(id, f)
    \/ \E id \in IdRange : handleAllocationDelete(id)
    \/ \E s \in Slots : routeCanModify(s)
    \/ \E s \in Slots : routeRead(s)
    \/ \E s \in Slots : routeCreate(s)
    \/ \E s \in Slots : routeUpdate(s)
    \/ \E s \in Slots : routeDelete(s)
    \/ \E s \in Slots : routeUpload(s)
    \/ \E s \in Slots : respondError(s)
    \/ \E s \in Slots : uploadResume(s)
    \/ \E s \in Slots : handlerResume(s)
    \/ \E s \in Slots : fetchResume(s)
    \/ \E s \in Slots : canModifyResume(s)

Spec == Init /\ [][Next]_vars

\* the page once the initial load has been answered: the lists hold the
\* stores' entries and the user may modify
InitLoadedPage(tab) ==
    /\ InitMock /\ InitTable /\ InitFn
    /\ lists = [e \in Entities |-> toClient(e, mock[e])]
    /\ canModify = TRUE
    /\ allocationFilters = [allocationNumber |-> <<>>, fy |-> <<>>]
    /\ receiptTabFilters = [sanctionOrder |-> <<>>, category |-> "", amountMin |-> <<>>,
                            amountMax |-> <<>>, dateFrom |-> <<>>, dateTo |-> <<>>]
    /\ activeTab = tab
    /\ location = "app"
    /\ mounted = TRUE
    /\ calls = [s \in Slots |-> Idle]
    /\ errors = 0
    /\ overwritten = [e \in Entities |-> FALSE]
    /\ lastDone = Idle
    /\ InitDialogs /\ InitView

InitLoadedOn(tab) == InitLoadedPage(tab) /\ opsLeft = MaxOpsLoaded

InitLoaded == InitLoadedOn("summary")

NextLoaded ==
    \/ \E tab \in Tabs : setActiveTab(tab)
    \/ \E r \in DialogForms("receipts") : handleReceiptAdd(r)
    \/ \E id \in IdRange, r \in DialogForms("receipts") : handleReceiptSave(id, r)
    \/ \E id \in IdRange : handleReceiptDelete(id)
    \/ \E x \in DialogForms("expenditures") : handleExpenditureAdd(x)
    \/ \E id \in IdRange, x \in DialogForms("expenditures") : handleExpenditureSave(id, x)
    \/ \E id \in IdRange : handleExpenditureDelete(id)
    \/ \E f \in Forms("allocations") : handleAllocationAdd(f)
    \/ \E id \in IdRange, f \in Forms("allocations") : handleAllocationSave(id, f)
    \/ \E id \in IdRange : handleAllocationDelete(id)
    \/ \E s \in Slots : routeRead(s)
    \/ \E s \in Slots : routeCreate(s)
    \/ \E s \in Slots : routeUpdate(s)
    \/ \E s \in Slots : routeDelete(s)
    \/ \E s \in Slots : routeUpload(s)
    \/ \E s \in Slots : respondError(s)
    \/ \E s \in Slots : uploadResume(s)
    \/ \E s \in Slots : handlerResume(s)
    \/ \E s \in Slots : fetchResume(s)

SpecLoaded == InitLoaded /\ [][NextLoaded]_vars

\* the day d lies in the financial year that starts on 1 April of year y
InFinancialYear(d, y) == DayOf(y, 4, 1) <= d /\ d <= DayOf(y + 1, 3, 31)

\* the sum of f over the arguments in S
RECURSIVE SetSum(_, _)
SetSum(f, S) ==
    IF S = {} THEN 0
    ELSE LET x == CHOOSE y \in S : TRUE IN f[x] + SetSum(f, S \ {x})

----------------------------------------------------------------------------
(* The Allocations tab: its filter card and the dialogs of its cards *)

\* the Allocation No. input
setAllocationNumberFilter(text) ==
    /\ location = "app" /\ activeTab = "allocations"
    /\ allocationFilters' = [allocationFilters EXCEPT !.allocationNumber = text]
    /\ UNCHANGED <<backendVars, listVars, netVars, obsVars, receiptTabFilters, activeTab,
                   tableVars, fnVars, dialogVars, viewVars>>

\* the options of the Financial Year select: "all" and the allocations' years
FyOptions == {<<>>} \cup {getFY(allocations[i].date) : i \in DOMAIN allocations}

\* onValueChange of the Financial Year select; <<>> is the option "all"
setAllocationFyFilter(v) ==
    /\ location = "app" /\ activeTab = "allocations"
    /\ v \in FyOptions
    /\ allocationFilters' = [allocationFilters EXCEPT !.fy = IF v = <<>> THEN <<>> ELSE v]
    /\ UNCHANGED <<backendVars, listVars, netVars, obsVars, receiptTabFilters, activeTab,
                   tableVars, fnVars, dialogVars, viewVars>>

\* onClear of the Allocation Filters card
clearAllocationFilters ==
    /\ location = "app" /\ activeTab = "allocations"
    /\ allocationFilters' = [allocationNumber |-> <<>>, fy |-> <<>>]
    /\ UNCHANGED <<backendVars, listVars, netVars, obsVars, receiptTabFilters, activeTab,
                   tableVars, fnVars, dialogVars, viewVars>>

D3 == DayOf(2023, 12, 15)

\* the values the allocation dialogs are filled with
AllocationSamples ==
    {AllocationForm(d, no, 100 * Len(no) + (d % 7), 10 + (d % 5)) :
        d \in {D1, D2, D3}, no \in {<<"A", "1">>, <<"a", "b", "1">>}}

\* the texts typed into the Allocation No. input
NumberTexts == {<<>>, <<"B">>, <<"1">>}

YearPairs == {<<y, y + 1>> : y \in (FirstYear - 1) .. LastYear}

InitAllocations == InitLoadedOn("allocations")

NextAllocations ==
    \/ \E f \in AllocationSamples : handleAllocationAdd(f)
    \/ \E id \in IdRange, f \in AllocationSamples : handleAllocationSave(id, f)
    \/ \E id \in IdRange : handleAllocationDelete(id)
    \/ \E text \in NumberTexts : setAllocationNumberFilter(text)
    \/ \E v \in {<<>>} \cup YearPairs : setAllocationFyFilter(v)
    \/ clearAllocationFilters
    \/ \E s \in Slots : routeRead(s)
    \/ \E s \in Slots : routeCreate(s)
    \/ \E s \in Slots : routeUpdate(s)
    \/ \E s \in Slots : routeDelete(s)
    \/ \E s \in Slots : handlerResume(s)
    \/ \E s \in Slots : fetchResume(s)

SpecAllocations == InitAllocations /\ [][NextAllocations]_vars

\* an allocation passes the filters of the Allocations tab
PassesAllocationFilters(a) ==
    /\ allocationFilters.allocationNumber # <<>> =>
          includes(toLowerCase(a.allocationNumber),
                   toLowerCase(allocationFilters.allocationNumber))
    /\ allocationFilters.fy # <<>> => InFinancialYear(a.date, allocationFilters.fy[1])

PassingAllocations == {i \in DOMAIN allocations : PassesAllocationFilters(allocations[i])}

\* C1: the Allocations tab shows exactly one table for every allocation
\* number that an allocation passing the filters has; the entry of the table
\* is a passing allocation of that number whose date no passing allocation of
\* the number exceeds, and the table's date, rows and total are that entry's.
AllocationTablesLatest ==
    LET tables  == allocationTables
        numbers == {allocations[i].allocationNumber : i \in PassingAllocations}
    IN  /\ Len(tables) = Cardinality(numbers)
        /\ \A no \in numbers :
              Cardinality({k \in DOMAIN tables : tables[k].allocationNumber = no}) = 1
        /\ \A k \in DOMAIN tables :
              LET t == tables[k]
              IN  /\ \E i \in PassingAllocations :
                        /\ allocations[i].allocationNumber = t.allocationNumber
                        /\ allocations[i].id = t.entry.id
                        /\ allocations[i].date = t.entry.date
                        /\ allocations[i].categoryAmounts = t.entry.categoryAmounts
                  /\ \A i \in PassingAllocations :
                        allocations[i].allocationNumber = t.allocationNumber =>
                            allocations[i].date <= t.entry.date
                  /\ t.date = t.entry.date
                  /\ t.rows = t.entry.categoryAmounts
                  /\ t.total = SetSum([j \in DOMAIN t.rows |-> t.rows[j].allocatedAmount],
                                      DOMAIN t.rows)

\* a filter hides an allocation number, and a number that is shown has
\* passing entries of different dates
AllocationTablesWitness ==
    /\ allocationFilters.allocationNumber # <<>>
    /\ Len(allocationTables) = 1
    /\ Cardinality({allocations[i].allocationNumber : i \in DOMAIN allocations}) = 2
    /\ \E i, j \in PassingAllocations :
          /\ allocations[i].allocationNumber = allocations[j].allocationNumber
          /\ allocations[i].date < allocations[j].date

\* C2: for every allocation number shown on the Allocations tab, the entry
\* shown is the latest-dated of all the entries of that number that the list
\* holds, whichever filter is active.
CurrentIsLatestStored ==
    LET tables == allocationTables
    IN  \A k \in DOMAIN tables : \A i \in DOMAIN allocations :
            allocations[i].allocationNumber = tables[k].allocationNumber =>
                allocations[i].date <= tables[k].entry.date

----------------------------------------------------------------------------
(* The Receipts tab: its filter card and the dialogs of its rows *)

\* onChange / onValueChange of a field of the Receipt Filters card; the
\* category select's option "all" is the value ""
setReceiptTabFilter(field, value) ==
    /\ location = "app" /\ activeTab = "receipts"
    /\ receiptTabFilters' = [receiptTabFilters EXCEPT ![field] = value]
    /\ UNCHANGED <<backendVars, listVars, netVars, obsVars, allocationFilters, activeTab,
                   tableVars, fnVars, dialogVars, viewVars>>

\* onClear of the Receipt Filters card
clearReceiptTabFilters ==
    /\ location = "app" /\ activeTab = "receipts"
    /\ receiptTabFilters' = [sanctionOrder |-> <<>>, category |-> "", amountMin |-> <<>>,
                             amountMax |-> <<>>, dateFrom |-> <<>>, dateTo |-> <<>>]
    /\ UNCHANGED <<backendVars, listVars, netVars, obsVars, allocationFilters, activeTab,
                   tableVars, fnVars, dialogVars, viewVars>>

\* the values the receipt dialogs are filled with
ReceiptSamples ==
    Forms("receipts") \cup {ReceiptForm(D3, <<"T", "s", "3">>, categories[1], 250)}

\* the values the filter fields are given
ReceiptFilterValues(field) ==
    CASE field = "sanctionOrder" -> {<<>>, <<"S">>, <<"s", "2">>}
      [] field = "category"      -> {""} \cup CategorySet
      [] field = "amountMin"     -> {<<>>, <<250>>}
      [] field = "amountMax"     -> {<<>>, <<100>>}
      [] field = "dateFrom"      -> {<<>>, toISODate(D2)}
      [] field = "dateTo"        -> {<<>>, toISODate(D2)}

InitReceiptsTab == InitLoadedOn("receipts")

NextReceiptsTab ==
    \/ \E r \in ReceiptSamples : handleReceiptAdd(r)
    \/ \E id \in IdRange, r \in ReceiptSamples : handleReceiptSave(id, r)
    \/ \E id \in IdRange : handleReceiptDelete(id)
    \/ \E field \in DOMAIN receiptTabFilters :
          \E value \in ReceiptFilterValues(field) : setReceiptTabFilter(field, value)
    \/ clearReceiptTabFilters
    \/ \E s \in Slots : routeRead(s)
    \/ \E s \in Slots : routeCreate(s)
    \/ \E s \in Slots : routeUpdate(s)
    \/ \E s \in Slots : routeDelete(s)
    \/ \E s \in Slots : handlerResume(s)
    \/ \E s \in Slots : fetchResume(s)

SpecReceiptsTab == InitReceiptsTab /\ [][NextReceiptsTab]_vars

\* text occurs in hay when letter case is ignored
ContainsIgnoringCase(hay, text) ==
    \E i \in 0 .. (Len(hay) - Len(text)) :
        \A j \in 1 .. Len(text) : LowerChar(hay[i + j]) = LowerChar(text[j])

\* a receipt satisfies every filter of the Receipts tab that is not empty
SatisfiesReceiptFilters(r) ==
    LET f == receiptTabFilters
    IN  /\ f.sanctionOrder # <<>> => ContainsIgnoringCase(r.sanctionOrder, f.sanctionOrder)
        /\ f.category # "" => r.category = f.category
        /\ f.amountMin # <<>> => r.amount >= f.amountMin[1]
        /\ f.amountMax # <<>> => r.amount <= f.amountMax[1]
        /\ f.dateFrom # <<>> => r.date >= DayOf(f.dateFrom[1], f.dateFrom[2], f.dateFrom[3])
        /\ f.dateTo # <<>> => r.date <= DayOf(f.dateTo[1], f.dateTo[2], f.dateTo[3])

NoReceiptFilter ==
    receiptTabFilters = [sanctionOrder |-> <<>>, category |-> "", amountMin |-> <<>>,
                         amountMax |-> <<>>, dateFrom |-> <<>>, dateTo |-> <<>>]

\* C7: the Receipts tab lists a receipt if and only if it satisfies every
\* filter that is not empty (sanction order contains the text whatever the
\* letter case, category equal, amount within min and max, date from the
\* from-date to the end of the to-date), in the list's order and once each;
\* with all filters empty, as after Clear All, it lists exactly the receipts.
ReceiptFilterConjunctive ==
    LET listed == filteredReceiptTabData
    IN  /\ \A i \in DOMAIN receipts :
              Cardinality({k \in DOMAIN listed : listed[k].id = receipts[i].id})
                  = IF SatisfiesReceiptFilters(receipts[i]) THEN 1 ELSE 0
        /\ \A k \in DOMAIN listed : \E i \in DOMAIN receipts : listed[k] = receipts[i]
        /\ \A k, l \in DOMAIN listed : k < l =>
              \E i, j \in DOMAIN receipts :
                  i < j /\ listed[k] = receipts[i] /\ listed[l] = receipts[j]
        /\ NoReceiptFilter => listed = receipts

\* with a category and an amount filter set, a receipt is listed and another,
\* which fails the category filter only, is not
ReceiptFilterWitness ==
    /\ receiptTabFilters.category # ""
    /\ receiptTabFilters.amountMin # <<>>
    /\ filteredReceiptTabData # <<>>
    /\ \E i \in DOMAIN receipts :
          /\ receipts[i].category # receiptTabFilters.category
          /\ receipts[i].amount >= receiptTabFilters.amountMin[1]

----------------------------------------------------------------------------
(* The DataTable of the Receipts tab under the tab's filter card *)

\* the receipts the tab is loaded with, enough for two pages
TabRowCount == 7

TabReceipts ==
    [i \in 1 .. TabRowCount |->
        Merge(createPayload("receipts",
                            ReceiptForm(D1 + i, <<"S", "1">>, categories[(i % 2) + 1], 50 * i)),
              [id |-> i])]

\* <DataTable data={receiptsWithIndex} .../>, rendered while there are rows
receiptsWithIndex == filteredReceiptTabData

InitTabTable ==
    /\ mock = [e \in Entities |-> IF e = "receipts" THEN TabReceipts ELSE <<>>]
    /\ idCounter = [e \in Entities |-> Len(mock[e]) + 1]
    /\ assignedIds = [e \in Entities |-> [i \in 1 .. Len(mock[e]) |-> i]]
    /\ lists = [e \in Entities |-> toClient(e, mock[e])]
    /\ canModify = TRUE
    /\ allocationFilters = [allocationNumber |-> <<>>, fy |-> <<>>]
    /\ receiptTabFilters = [sanctionOrder |-> <<>>, category |-> "", amountMin |-> <<>>,
                            amountMax |-> <<>>, dateFrom |-> <<>>, dateTo |-> <<>>]
    /\ activeTab = "receipts"
    /\ location = "app"
    /\ mounted = TRUE
    /\ calls = [s \in Slots |-> Idle]
    /\ errors = 0
    /\ overwritten = [e \in Entities |-> FALSE]
    /\ lastDone = Idle
    /\ InitDialogs /\ InitView
    /\ opsLeft = 0
    /\ InitFn
    /\ data = receiptsWithIndex
    /\ filterValues = <<>>
    /\ sortConfig = [key |-> "none", direction |-> "desc"]
    /\ currentPage = 1
    /\ rowsPerPage = 5

\* the render after a change of the filter card: the table gets the filtered
\* rows as its data prop and keeps its state; with no row left the table is
\* replaced by a notice, and mounts anew, in its initial state, with the next rows
renderReceiptsTable ==
    IF receiptsWithIndex' = <<>>
    THEN /\ data' = <<>> /\ filterValues' = <<>>
         /\ sortConfig' = [key |-> "none", direction |-> "desc"]
         /\ currentPage' = 1 /\ rowsPerPage' = 5
    ELSE /\ data' = receiptsWithIndex'
         /\ UNCHANGED <<filterValues, sortConfig, currentPage, rowsPerPage>>

\* onChange of a field of the Receipt Filters card, with the render it causes
receiptFilterCardChange(field, value) ==
    /\ location = "app" /\ activeTab = "receipts"
    /\ receiptTabFilters[field] # value
    /\ receiptTabFilters' = [receiptTabFilters EXCEPT ![field] = value]
    /\ UNCHANGED <<backendVars, listVars, netVars, obsVars, allocationFilters, activeTab,
                   fnVars, dialogVars, viewVars>>
    /\ renderReceiptsTable

\* the values the fields of the card are given
TabFilterValues(field) ==
    CASE field = "sanctionOrder" -> {<<>>, <<"S">>}
      [] field = "category"      -> {""} \cup CategorySet
      [] field = "amountMin"     -> {<<>>, <<100>>, <<400>>}
      [] field = "amountMax"     -> {<<>>, <<300>>}
      [] field = "dateFrom"      -> {<<>>, toISODate(D2)}
      [] field = "dateTo"        -> {<<>>, toISODate(D3)}

NextTabTable ==
    \/ \E field \in DOMAIN receiptTabFilters :
          \E value \in TabFilterValues(field) : receiptFilterCardChange(field, value)
    \/ PrevPage \/ NextPage \/ GotoPage \/ ItemsPerPageChange
    \/ requestSort

SpecTabTable == InitTabTable /\ [][NextTabTable]_vars

----------------------------------------------------------------------------
(* The summary table's expandable rows and the bar chart *)

toggleRowKeepsOthers(category) ==
    IF category \in expandedRows THEN expandedRows \ {category}
    ELSE expandedRows \cup {category}

\* setExpandedRows(prev => prev.has(category) ? new Set() : new Set([category]))
toggleRow(category) ==
    IF category \in expandedRows THEN {} ELSE {category}

\* onClick of a row of the summary table: hasSubCategories && toggleRow(row.category)
clickSummaryRow(i) ==
    /\ location = "app" /\ mounted /\ activeTab = "summary"
    /\ Len(summaryCategoryData[i].subCategories) > 0
    /\ expandedRows' = toggleRow(summaryCategoryData[i].category)
    /\ UNCHANGED <<expandedHistory, historyPage, historyPerPage, report>>
    /\ UNCHANGED <<backendVars, listVars, filterVars, netVars, obsVars, tableVars, fnVars,
                   dialogVars>>

\* Array.prototype.flatMap(c => c.subCategories)
RECURSIVE flatMapSubCategories(_)
flatMapSubCategories(rows) ==
    IF rows = <<>> THEN <<>>
    ELSE Head(rows).subCategories \o flatMapSubCategories(Tail(rows))

chartData ==
    IF Cardinality(expandedRows) = 0 THEN flatMapSubCategories(summaryCategoryData)
    ELSE LET Expanded(c) == c.category \in expandedRows
         IN  flatMapSubCategories(SelectSeq(summaryCategoryData, Expanded))

InitSummary == InitLoadedPage("summary") /\ opsLeft = MaxOps

NextSummary ==
    \/ NextLoaded
    \/ \E i \in DOMAIN summaryCategoryData : clickSummaryRow(i)

SpecSummary == InitSummary /\ [][NextSummary]_vars

----------------------------------------------------------------------------
(* The allocation history of the Allocations tab *)

\* the allocations the tab is loaded with besides the latest one, enough for
\* two history pages
HistoryCount == 7

HistoryDigits == <<"1", "2", "3", "4", "5", "6", "7", "8", "9">>

HistoryAllocations ==
    [i \in 1 .. (HistoryCount + 1) |->
        Merge(createPayload("allocations",
                  AllocationForm(D1 + i, <<IF i % 2 = 0 THEN "B" ELSE "A", HistoryDigits[i]>>,
                                 100 * i, 10)),
              [id |-> i])]

safeHistoryPage ==
    Min(historyPage, Max(1, CeilDiv(Len(historyAllocationTables), historyPerPage)))

historyTotalPages == Max(1, CeilDiv(Len(historyAllocationTables), historyPerPage))

paginatedHistory ==
    LET history == historyAllocationTables
        safe == Min(historyPage, Max(1, CeilDiv(Len(history), historyPerPage)))
        start == (safe - 1) * historyPerPage
    IN  Slice(history, start, start + historyPerPage)

\* the buttons of paginatedHistory.map(table => ...), by allocation number
HistoryButtons ==
    LET page == paginatedHistory
    IN  {page[i].allocationNumber : i \in DOMAIN page}

HistoryBase == location = "app" /\ activeTab = "allocations"

HistoryFrame ==
    UNCHANGED <<backendVars, listVars, filterVars, netVars, obsVars, tableVars, fnVars,
                dialogVars, expandedRows, report>>

\* const next = new Set(prev); next.has(n) ? next.delete(n) : next.add(n)
toggleHistoryRow(allocationNumber) ==
    /\ HistoryBase
    /\ expandedHistory' = IF allocationNumber \in expandedHistory
                          THEN expandedHistory \ {allocationNumber}
                          ELSE expandedHistory \cup {allocationNumber}
    /\ UNCHANGED <<historyPage, historyPerPage>>
    /\ HistoryFrame

historyHeaderCollapsesAll(prev, page) ==
    LET onPage == {page[i].allocationNumber : i \in DOMAIN page}
    IN  IF \A i \in DOMAIN page : page[i].allocationNumber \in prev
        THEN {}
        ELSE prev \cup onPage

\* the updater of the History header's onClick
historyHeader(prev, page) ==
    LET onPage == {page[i].allocationNumber : i \in DOMAIN page}
        allExpanded == \A i \in DOMAIN page : page[i].allocationNumber \in prev
    IN  IF allExpanded THEN prev \ onPage ELSE prev \cup onPage

\* onClick of the History header, rendered while there is history
clickHistoryHeader ==
    /\ HistoryBase
    /\ UNCHANGED <<historyPage, historyPerPage>>
    /\ HistoryFrame
    /\ LET page == paginatedHistory
       IN  /\ Len(page) > 0
           /\ expandedHistory' = historyHeader(expandedHistory, page)

\* onPageChange={setHistoryPage} of the history's Pagination
setHistoryPage(p) ==
    /\ HistoryBase
    /\ LET history == historyAllocationTables
           total == Max(1, CeilDiv(Len(history), historyPerPage))
       IN  /\ Len(history) > 0
           /\ p \in 1 .. total /\ p # Min(historyPage, total)
    /\ historyPage' = p
    /\ UNCHANGED <<expandedHistory, historyPerPage>>
    /\ HistoryFrame

\* onItemsPerPageChange={n => { setHistoryPerPage(n); setHistoryPage(1) }}
setHistoryPerPage(n) ==
    /\ HistoryBase
    /\ n # historyPerPage
    /\ Len(historyAllocationTables) > 0
    /\ historyPerPage' = n
    /\ historyPage' = 1
    /\ UNCHANGED expandedHistory
    /\ HistoryFrame

\* the texts typed into the Allocation No. input of the history's tab
HistoryNumberTexts == {<<>>, <<"B">>}

InitHistory ==
    /\ mock = [e \in Entities |-> IF e = "allocations" THEN HistoryAllocations ELSE <<>>]
    /\ idCounter = [e \in Entities |-> Len(mock[e]) + 1]
    /\ assignedIds = [e \in Entities |-> [i \in 1 .. Len(mock[e]) |-> i]]
    /\ lists = [e \in Entities |-> toClient(e, mock[e])]
    /\ canModify = TRUE
    /\ allocationFilters = [allocationNumber |-> <<>>, fy |-> <<>>]
    /\ receiptTabFilters = [sanctionOrder |-> <<>>, category |-> "", amountMin |-> <<>>,
                            amountMax |-> <<>>, dateFrom |-> <<>>, dateTo |-> <<>>]
    /\ activeTab = "allocations"
    /\ location = "app"
    /\ mounted = TRUE
    /\ calls = [s \in Slots |-> Idle]
    /\ errors = 0
    /\ overwritten = [e \in Entities |-> FALSE]
    /\ lastDone = Idle
    /\ InitDialogs /\ InitView
    /\ opsLeft = 0
    /\ InitFn /\ InitTable

NextHistory ==
    \/ \E allocationNumber \in HistoryButtons : toggleHistoryRow(allocationNumber)
    \/ clickHistoryHeader
    \/ \E p \in 1 .. CeilDiv(HistoryCount, 5) : setHistoryPage(p)
    \/ \E n \in {5, 10} : setHistoryPerPage(n)
    \/ \E text \in HistoryNumberTexts : setAllocationNumberFilter(text)

SpecHistory == InitHistory /\ [][NextHistory]_vars

----------------------------------------------------------------------------
(* The filters of the Reports tab *)

ReportsBase == location = "app" /\ mounted /\ activeTab = "reports"

ReportsFrame ==
    UNCHANGED <<backendVars, listVars, filterVars, netVars, obsVars, tableVars, fnVars,
                dialogVars, expandedRows, expandedHistory, historyPage, historyPerPage>>

resetReportFilters(r) ==
    [r EXCEPT !.filterType = "", !.startDate = <<>>, !.endDate = <<>>,
              !.selectedFinancialYear = <<>>, !.selectedCategory = "",
              !.selectedSubCategory = "", !.selectedDepartment = "",
              !.selectedReceiptCategory = ""]

\* onClear of the Report Filters card
clearReportFilters ==
    /\ ReportsBase
    /\ report' = resetReportFilters([report EXCEPT !.reportType = ""])
    /\ ReportsFrame

\* onClick of a report type button: setReportType(type); resetReportFilters()
selectReportType(type) ==
    /\ ReportsBase
    /\ report' = resetReportFilters([report EXCEPT !.reportType = type])
    /\ ReportsFrame

selectFilterTypeKeepsDates(ft) ==
    /\ ReportsBase
    /\ report' = [report EXCEPT !.filterType = ft]
    /\ ReportsFrame

\* onClick of a period button: All Time (""), Date Range, Financial Year
selectFilterType(ft) ==
    /\ ReportsBase
    /\ report' = [report EXCEPT !.filterType = ft, !.startDate = <<>>, !.endDate = <<>>,
                                !.selectedFinancialYear = <<>>]
    /\ ReportsFrame

\* the From and To date inputs, rendered for the period Date Range
setStartDate(v) ==
    /\ ReportsBase /\ report.filterType = "dateRange"
    /\ report' = [report EXCEPT !.startDate = v]
    /\ ReportsFrame

setEndDate(v) ==
    /\ ReportsBase /\ report.filterType = "dateRange"
    /\ report' = [report EXCEPT !.endDate = v]
    /\ ReportsFrame

\* the Financial Year select, rendered for the period Financial Year; <<>>
\* is the option "all"
setSelectedFinancialYear(v) ==
    /\ ReportsBase /\ report.filterType = "financialYear"
    /\ v = <<>> \/ v \in Range(financialYears)
    /\ report' = [report EXCEPT !.selectedFinancialYear = v]
    /\ ReportsFrame

\* the selects of the Additional Filters, rendered by report type; "" is "all"
setSelectedCategory(v) ==
    /\ ReportsBase /\ report.reportType = "expenditure"
    /\ report' = [report EXCEPT !.selectedCategory = v, !.selectedSubCategory = ""]
    /\ ReportsFrame

setSelectedSubCategory(v) ==
    /\ ReportsBase /\ report.reportType = "expenditure"
    /\ report.selectedCategory # ""
    /\ v = "" \/ v \in Range(subCategoriesMap[report.selectedCategory])
    /\ report' = [report EXCEPT !.selectedSubCategory = v]
    /\ ReportsFrame

setSelectedDepartment(v) ==
    /\ ReportsBase /\ report.reportType = "expenditure"
    /\ report' = [report EXCEPT !.selectedDepartment = v]
    /\ ReportsFrame

setSelectedReceiptCategory(v) ==
    /\ ReportsBase /\ report.reportType = "receipts"
    /\ report' = [report EXCEPT !.selectedReceiptCategory = v]
    /\ ReportsFrame

filteredReportData ==
    IF report.reportType = "" THEN <<>>
    ELSE
    LET source == IF report.reportType = "expenditure" THEN expenditures ELSE receipts
        Keep(item) ==
            /\ (report.filterType = "dateRange" /\ report.startDate # <<>>) =>
                  getTime(item.date) >= getTime(parseDate(report.startDate))
            /\ (report.filterType = "dateRange" /\ report.endDate # <<>>) =>
                  getTime(item.date) <= endOfDay(parseDate(report.endDate))
            /\ (report.filterType = "financialYear" /\ report.selectedFinancialYear # <<>>) =>
                  getFY(item.date) = report.selectedFinancialYear
            /\ (report.reportType = "expenditure" /\ report.selectedCategory # "") =>
                  item.category = report.selectedCategory
            /\ (report.reportType = "expenditure" /\ report.selectedSubCategory # "") =>
                  item.subCategory = report.selectedSubCategory
            /\ (report.reportType = "expenditure" /\ report.selectedDepartment # "") =>
                  item.department = report.selectedDepartment
            /\ (report.reportType = "receipts" /\ report.selectedReceiptCategory # "") =>
                  item.category = report.selectedReceiptCategory
    IN  SelectSeq(source, Keep)

\* the dates picked in the date inputs
ReportDates == {<<>>, toISODate(D1), toISODate(D2)}

\* the options of the Department select: "-" and the departments but the first
ReportDepartments == {"-"} \cup {departments[i] : i \in 2 .. Len(departments)}

InitReports == InitLoadedPage("reports") /\ opsLeft = 0

NextReports ==
    \/ clearReportFilters
    \/ \E type \in {"receipts", "expenditure"} : selectReportType(type)
    \/ \E ft \in {"", "dateRange", "financialYear"} : selectFilterType(ft)
    \/ \E v \in ReportDates : setStartDate(v)
    \/ \E v \in ReportDates : setEndDate(v)
    \/ \E v \in {<<>>} \cup YearPairs : setSelectedFinancialYear(v)
    \/ \E v \in {""} \cup CategorySet : setSelectedCategory(v)
    \/ \E c \in CategorySet : \E v \in {""} \cup Range(subCategoriesMap[c]) :
          setSelectedSubCategory(v)
    \/ \E v \in {""} \cup ReportDepartments : setSelectedDepartment(v)
    \/ \E v \in {""} \cup CategorySet : setSelectedReceiptCategory(v)

SpecReports == InitReports /\ [][NextReports]_vars

----------------------------------------------------------------------------
(* The allocation edit form: allocationToFlat and back *)

allocationToFlatByPosition(a) ==
    [index |-> a.index, date |-> a.date, allocationNumber |-> a.allocationNumber,
     amount |-> [c \in CategorySet |->
         a.categoryAmounts[CHOOSE i \in DOMAIN categories : categories[i] = c].allocatedAmount]]

\* {_index, date, allocationNumber, ...Object.fromEntries(categoryAmounts.map(
\* ca => [`amount_${ca.category}`, ca.allocatedAmount]))}: one amount field per
\* category the list names, the last entry of a category giving its value
allocationToFlat(a) ==
    LET list  == a.categoryAmounts
        named == {list[i].category : i \in DOMAIN list}
        last(c) == CHOOSE i \in DOMAIN list :
                       /\ list[i].category = c
                       /\ \A j \in DOMAIN list : list[j].category = c => j <= i
    IN  [index |-> a.index, date |-> a.date, allocationNumber |-> a.allocationNumber,
         amount |-> [c \in named |-> list[last(c)].allocatedAmount]]

\* the amounts the stored allocations hold
RoundTripAmounts == {0, 300, 500}

\* the orders in which a stored allocation lists the categories
CategoryOrders ==
    {order \in [DOMAIN categories -> DOMAIN categories] :
        \A i, j \in DOMAIN categories : order[i] = order[j] => i = j}

\* stored allocations with exactly one entry per category
RoundTripStored ==
    {[id |-> 1, date |-> toISODate(d), allocationNumber |-> no,
      categoryAmounts |-> [i \in DOMAIN categories |->
          [category |-> categories[order[i]], allocatedAmount |-> amounts[order[i]]]]] :
        d \in {D1, D2, D3}, no \in {<<"A", "1">>, <<"a", "b", "1">>},
        order \in CategoryOrders, amounts \in [DOMAIN categories -> RoundTripAmounts]}

\* the allocation as fetchAllocations hands it to the page, with its _index
RoundTripClient(stored) ==
    Merge(toClient("allocations", <<stored>>)[1], [index |-> 0])

\* the edit dialog is opened on the allocation and saved as it is: the form
\* back as an allocation, and the stored entry after update.php
applyRoundTrip ==
    /\ fnRes = NoResult
    /\ LET flat == allocationToFlat(RoundTripClient(fnArg))
       IN  fnRes' = <<"saved", flatToAllocation(flat),
                      Merge(fnArg, updatePayload("allocations", fnArg.id, flat))>>
    /\ UNCHANGED <<fnArg, nonFnVars>>

InitRoundTrip ==
    /\ InitApp /\ InitBackendEmpty /\ InitTable
    /\ fnArg \in RoundTripStored
    /\ fnRes = NoResult
    /\ opsLeft = 0

NextRoundTrip == applyRoundTrip

SpecRoundTrip == InitRoundTrip /\ [][NextRoundTrip]_vars

----------------------------------------------------------------------------
(* The Dashboard that keeps its lists in memory and addresses rows by index *)

\* entries each list is generated with
InMemoryCount == 3

\* generateExpenditures / generateReceipts draw every field at random; ref is
\* the identity of the object an entry is
InMemoryExpenditures ==
    {[date |-> D1, billNo |-> b, voucherNo |-> <<"V", "1">>, category |-> c,
      subCategory |-> subCategoriesMap[c][1],
      department |-> IF c = categories[2] THEN departments[2] ELSE "-",
      amount |-> 40, attachment |-> ""] :
        b \in {<<"B", "1">>, <<"B", "2">>}, c \in CategorySet}

InMemoryReceipts ==
    {[date |-> D1, sanctionOrder |-> <<"S", "1">>, category |-> c, amount |-> 100,
      attachment |-> ""] : c \in CategorySet}

Generated(pool) ==
    {[i \in 1 .. InMemoryCount |-> Merge(picks[i], [ref |-> i])] :
        picks \in [1 .. InMemoryCount -> pool]}

\* the list a report type shows, and the field its rows are looked up by
ReportEntity == IF report.reportType = "expenditure" THEN "expenditures" ELSE "receipts"
ReportKey    == IF report.reportType = "expenditure" THEN "billNo" ELSE "sanctionOrder"

\* list.findIndex(x => x.date.getTime() === row.date.getTime() &&
\*                     x[key] === row[key] && x.amount === row.amount)
findIndex(list, row, key) ==
    LET found == {i \in DOMAIN list :
                     /\ getTime(list[i].date) = getTime(row.date)
                     /\ list[i][key] = row[key]
                     /\ list[i].amount = row.amount}
    IN  IF found = {} THEN 0 - 1
        ELSE (CHOOSE i \in found : \A j \in found : i <= j) - 1

\* idx >= 0 ? idx : 0
indexOrZero(idx) == IF idx >= 0 THEN idx ELSE 0

\* the rows of the Reports table: {...e, _index: idx >= 0 ? idx : 0}
reportRows ==
    LET rows == filteredReportData
    IN  [k \in DOMAIN rows |->
            Merge(rows[k],
                  [index |-> indexOrZero(findIndex(lists[ReportEntity], rows[k], ReportKey))])]

InMemoryBase ==
    /\ ReportsBase /\ canModify
    /\ report.reportType # ""
    /\ opsLeft > 0

InMemoryFrame ==
    /\ opsLeft' = opsLeft - 1
    /\ UNCHANGED <<backendVars, filterVars, netVars, idVars, lastDone, tableVars, fnVars,
                   dialogVars, viewVars>>

\* the entry a saved form becomes; the _index the form carries along is
\* overwritten whenever rows are made of the list
SavedEntry(form) == [f \in DOMAIN form \ {"index"} |-> form[f]]

\* handleReceiptSave(i) / handleExpenditureSave(i): n[i] = r
handleSaveAt(e, i, r) ==
    lists' = [lists EXCEPT ![e] = [n \in DOMAIN @ |-> IF n = i + 1 THEN r ELSE @[n]]]

\* handleReceiptDelete(i) / handleExpenditureDelete(i): prev.filter((_, idx) => idx !== i)
handleDeleteAt(e, i) ==
    lists' = [lists EXCEPT ![e] =
                 SubSeq(@, 1, Min(i, Len(@))) \o SubSeq(@, i + 2, Len(@))]

\* Save Changes of the dialog of row k of the Reports table, the amount edited
reportRowSave(k, amount) ==
    /\ InMemoryBase
    /\ LET rows == reportRows
       IN  /\ k \in DOMAIN rows
           /\ handleSaveAt(ReportEntity, rows[k].index,
                           SavedEntry([rows[k] EXCEPT !.amount = amount]))
    /\ InMemoryFrame

\* Delete of the dialog of row k of the Reports table
reportRowDelete(k) ==
    /\ InMemoryBase
    /\ LET rows == reportRows
       IN  /\ k \in DOMAIN rows
           /\ handleDeleteAt(ReportEntity, rows[k].index)
    /\ InMemoryFrame

\* the amounts typed into the edit dialog
InMemoryAmounts == {40, 55}

InitInMemory ==
    /\ InitBackendEmpty
    /\ \E generated \in Generated(InMemoryExpenditures) :
          lists = [e \in Entities |->
                     CASE e = "expenditures" -> generated
                       [] e = "receipts" ->
                            [i \in 1 .. 2 |->
                                Merge([date |-> D1, sanctionOrder |-> <<"S", "1">>,
                                       category |-> categories[i], amount |-> 100,
                                       attachment |-> ""], [ref |-> i])]
                       [] OTHER -> <<>>]
    /\ canModify = TRUE
    /\ allocationFilters = [allocationNumber |-> <<>>, fy |-> <<>>]
    /\ receiptTabFilters = [sanctionOrder |-> <<>>, category |-> "", amountMin |-> <<>>,
                            amountMax |-> <<>>, dateFrom |-> <<>>, dateTo |-> <<>>]
    /\ activeTab = "reports"
    /\ location = "app"
    /\ mounted = TRUE
    /\ calls = [s \in Slots |-> Idle]
    /\ errors = 0
    /\ overwritten = [e \in Entities |-> FALSE]
    /\ lastDone = Idle
    /\ InitDialogs /\ InitView
    /\ opsLeft = MaxOpsLoaded
    /\ InitFn /\ InitTable

NextInMemory ==
    \/ \E type \in {"receipts", "expenditure"} : selectReportType(type)
    \/ \E v \in {""} \cup CategorySet : setSelectedCategory(v)
    \/ \E v \in {""} \cup CategorySet : setSelectedReceiptCategory(v)
    \/ \E k \in 1 .. InMemoryCount, amount \in InMemoryAmounts : reportRowSave(k, amount)
    \/ \E k \in 1 .. InMemoryCount : reportRowDelete(k)

SpecInMemory == InitInMemory /\ [][NextInMemory]_vars

----------------------------------------------------------------------------
(* The dialogs, field by field: AddEntryDialog and EditDeleteDialog *)

\* the entities whose dialogs are followed field by field
DialogEntities == {"receipts", "expenditures"}

\* a FieldConfig; options is empty for a field without an options array
Field(key, type, required, options) ==
    [key |-> key, type |-> type, required |-> required, options |-> options,
     dependsOn |-> ""]

receiptFields ==
    <<Field("date", "date", TRUE, <<>>),
      Field("sanctionOrder", "text", TRUE, <<>>),
      Field("category", "select", TRUE, categories),
      Field("amount", "number", TRUE, <<>>),
      Field("attachment", "file", FALSE, <<>>)>>

\* subCategory has getDynamicOptions and dependsOn instead of options
expenditureFields ==
    <<Field("date", "date", TRUE, <<>>),
      Field("billNo", "text", TRUE, <<>>),
      Field("voucherNo", "text", TRUE, <<>>),
      Field("category", "select", TRUE, categories),
      [Field("subCategory", "select", TRUE, <<>>) EXCEPT !.dependsOn = "category"],
      Field("department", "select", TRUE, <<"-">> \o Tail(departments)),
      Field("amount", "number", TRUE, <<>>),
      Field("attachment", "file", FALSE, <<>>)>>

fieldsOf(e) == IF e = "receipts" THEN receiptFields ELSE expenditureFields

\* the empty value of an input: "" as a text, as a choice and as no file
Blank(type) == IF type \in {"select", "file"} THEN "" ELSE <<>>

\* the days `new Date()` gives when a dialog opens
Todays == {D2}

\* initializeForm: today for a date, 0 for a number, "" otherwise
initializeForm(e, today) ==
    LET fields == fieldsOf(e)
    IN  [k \in {fields[i].key : i \in DOMAIN fields} |->
            LET f == CHOOSE g \in Range(fields) : g.key = k
            IN  CASE f.type = "date"   -> toISODate(today)
                  [] f.type = "number" -> <<"0">>
                  [] OTHER             -> Blank(f.type)]

\* an open dialog is modal: the page behind it takes no clicks
NoDialogOpen == ~addDialog.open /\ ~editDialog.open /\ ~deleteDialog.open

\* a dialog is touched while the user may still start an invocation
DialogBase ==
    /\ location = "app" /\ mounted /\ canModify
    /\ opsLeft > 0
    /\ UNCHANGED <<backendVars, listVars, netVars, obsVars, filterVars, tableVars, fnVars, viewVars>>

\* handleOpen: the Add Entry button (true), and Cancel or a click outside
\* (false); the formData of a closed dialog is never read.  The forms of the
\* dialogs do not touch each other: Add Entry is followed as long as no Edit
\* dialog holds typed values
handleOpen(e, isOpen) ==
    /\ DialogBase
    /\ activeTab = AddTab(e)
    /\ IF isOpen
       THEN /\ NoDialogOpen /\ editDialog = Closed
            /\ \E today \in Todays :
                  addDialog' = [open |-> TRUE, entity |-> e, id |-> 0,
                                formData |-> initializeForm(e, today)]
       ELSE /\ addDialog.open /\ addDialog.entity = e
            /\ addDialog' = Closed
    /\ UNCHANGED <<editDialog, deleteDialog>>

\* getFieldOptions of the Add dialog
getFieldOptions(field, formData) ==
    IF field.dependsOn # ""
    THEN IF formData.category # "" THEN Range(subCategoriesMap[formData.category]) ELSE {}
    ELSE Range(field.options)

\* isFieldDisabled
isFieldDisabled(field, formData) ==
    field.dependsOn # "" /\ formData[field.dependsOn] = ""

\* what the user can put in an input of the Add dialog: a date, a text or
\* nothing, digits or nothing, an option of an enabled select, a file or none
AddInputs(field, formData) ==
    CASE field.type = "date"   -> {toISODate(D1)}
      [] field.type = "text"   -> {<<>>, <<"S", "1">>}
      [] field.type = "number" -> {<<>>, <<"4", "0">>}
      [] field.type = "select" -> IF isFieldDisabled(field, formData) THEN {}
                                  ELSE getFieldOptions(field, formData)
      [] OTHER                 -> Files \cup {""}

\* updateField of the Add dialog: the fields that depend on key are emptied
AddEntryDialog_updateFieldNoReset(key, value) ==
    /\ DialogBase
    /\ addDialog.open
    /\ \E f \in Range(fieldsOf(addDialog.entity)) :
          f.key = key /\ value \in AddInputs(f, addDialog.formData)
    /\ addDialog.formData[key] # value
    /\ addDialog' = [addDialog EXCEPT !.formData[key] = value]
    /\ UNCHANGED <<editDialog, deleteDialog>>

AddEntryDialog_updateField(key, value) ==
    /\ DialogBase
    /\ addDialog.open
    /\ LET fields == fieldsOf(addDialog.entity)
           old    == addDialog.formData
       IN  /\ \E f \in Range(fields) : f.key = key /\ value \in AddInputs(f, old)
           /\ old[key] # value
           /\ addDialog' = [addDialog EXCEPT !.formData =
                  [k \in DOMAIN old |->
                      IF k = key THEN value
                      ELSE IF (CHOOSE g \in Range(fields) : g.key = k).dependsOn = key
                           THEN "" ELSE old[k]]]
    /\ UNCHANGED <<editDialog, deleteDialog>>

Digits == <<"0", "1", "2", "3", "4", "5", "6", "7", "8", "9">>

\* parseFloat(text) || 0 on the digits a number input holds
RECURSIVE parseFloatOrZero(_)
parseFloatOrZero(text) ==
    IF text = <<>> THEN 0
    ELSE 10 * parseFloatOrZero(SubSeq(text, 1, Len(text) - 1))
         + (CHOOSE d \in 0 .. 9 : Digits[d + 1] = text[Len(text)])

\* processedData of AddEntryDialog.handleAdd
processedData(fields, formData) ==
    [k \in DOMAIN formData |->
        LET f == CHOOSE g \in Range(fields) : g.key = k
        IN  CASE f.type = "date" /\ formData[k] # <<>> -> parseDate(formData[k])
              [] f.type = "number"                      -> parseFloatOrZero(formData[k])
              [] OTHER                                  -> formData[k]]

\* handleAdd of AddEntryDialog (the Add Entry button of the open dialog):
\* onAdd(processedData), setOpen(false), setFormData({})
AddEntryDialog_handleAdd(e) ==
    /\ addDialog.open /\ addDialog.entity = e
    /\ onAdd(e, processedData(fieldsOf(e), addDialog.formData))
    /\ addDialog' = Closed
    /\ UNCHANGED <<editDialog, deleteDialog>>

\* handleEdit of the EditDeleteDialog of a displayed row: setFormData(row)
EditDeleteDialog_handleEditKeepsForm(e, id) ==
    /\ DialogBase
    /\ id \in Displayed(e) /\ NoDialogOpen
    /\ \E i \in DOMAIN lists[e] :
          /\ lists[e][i].id = id
          /\ editDialog' = [open |-> TRUE, entity |-> e, id |-> id,
                            formData |-> IF editDialog.entity = e /\ editDialog.id = id
                                         THEN editDialog.formData ELSE lists[e][i]]
    /\ UNCHANGED <<addDialog, deleteDialog>>

EditDeleteDialog_handleEdit(e, id) ==
    /\ DialogBase
    /\ id \in Displayed(e) /\ NoDialogOpen
    /\ \E i \in DOMAIN lists[e] :
          /\ lists[e][i].id = id
          /\ editDialog' = [open |-> TRUE, entity |-> e, id |-> id,
                            formData |-> lists[e][i]]
    /\ UNCHANGED <<addDialog, deleteDialog>>

\* what an input of the Edit dialog hands to updateField: a select needs an
\* options array, so subCategory is a text input there
EditInputs(field) ==
    CASE field.type = "select" /\ field.options # <<>> -> Range(field.options)
      [] field.type = "date"   -> {D1}
      [] field.type = "number" -> {parseFloatOrZero(<<>>), parseFloatOrZero(<<"4", "0">>)}
      [] field.type = "file"   -> Files
      [] field.type = "select" ->
            {""} \cup UNION {Range(subCategoriesMap[c]) : c \in CategorySet}
      [] OTHER                 -> {<<>>, <<"S", "1">>}

\* updateField of the Edit dialog: no other field changes
EditDeleteDialog_updateField(key, value) ==
    /\ DialogBase
    /\ editDialog.open
    /\ \E f \in Range(fieldsOf(editDialog.entity)) : f.key = key /\ value \in EditInputs(f)
    /\ editDialog.formData[key] # value
    /\ editDialog' = [editDialog EXCEPT !.formData[key] = value]
    /\ UNCHANGED <<addDialog, deleteDialog>>

\* handleSave of EditDeleteDialog: onSave(formData), setEditOpen(false)
EditDeleteDialog_handleSave(e) ==
    /\ editDialog.open /\ editDialog.entity = e
    /\ onSave(e, editDialog.id, editDialog.formData)
    /\ editDialog' = [editDialog EXCEPT !.open = FALSE]
    /\ UNCHANGED <<addDialog, deleteDialog>>

\* Cancel of the Edit dialog
setEditOpen(isOpen) ==
    /\ DialogBase
    /\ ~isOpen /\ editDialog.open
    /\ editDialog' = [editDialog EXCEPT !.open = FALSE]
    /\ UNCHANGED <<addDialog, deleteDialog>>

\* the trash button of a displayed row (true) and Cancel of the confirmation (false)
setDeleteOpen(e, id, isOpen) ==
    /\ DialogBase
    /\ IF isOpen
       THEN /\ id \in Displayed(e) /\ NoDialogOpen
            /\ deleteDialog' = [open |-> TRUE, entity |-> e, id |-> id, formData |-> <<>>]
       ELSE /\ deleteDialog.open /\ deleteDialog.entity = e /\ deleteDialog.id = id
            /\ deleteDialog' = Closed
    /\ UNCHANGED <<addDialog, editDialog>>

\* handleDelete of EditDeleteDialog: onDelete(row), setDeleteOpen(false)
EditDeleteDialog_handleDelete(e) ==
    /\ deleteDialog.open /\ deleteDialog.entity = e
    /\ onDelete(e, deleteDialog.id)
    /\ deleteDialog' = Closed
    /\ UNCHANGED <<addDialog, editDialog>>

\* the fields rendered by a dialog
OpenFields(dialog) == IF dialog.open THEN Range(fieldsOf(dialog.entity)) ELSE {}

InitDialogSpec ==
    /\ \E tab \in DialogEntities : InitLoadedPage(tab)
    /\ opsLeft = MaxOps

NextDialogs ==
    \/ \E e \in DialogEntities, isOpen \in BOOLEAN : handleOpen(e, isOpen)
    \/ \E f \in OpenFields(addDialog) :
          \E value \in AddInputs(f, addDialog.formData) :
             AddEntryDialog_updateField(f.key, value)
    \/ \E e \in DialogEntities : AddEntryDialog_handleAdd(e)
    \/ \E e \in DialogEntities, id \in IdRange : EditDeleteDialog_handleEdit(e, id)
    \/ \E f \in OpenFields(editDialog) :
          \E value \in EditInputs(f) : EditDeleteDialog_updateField(f.key, value)
    \/ \E e \in DialogEntities : EditDeleteDialog_handleSave(e)
    \/ setEditOpen(FALSE)
    \/ \E e \in DialogEntities, id \in IdRange, isOpen \in BOOLEAN :
          setDeleteOpen(e, id, isOpen)
    \/ \E e \in DialogEntities : EditDeleteDialog_handleDelete(e)
    \/ \E s \in Slots : routeRead(s)
    \/ \E s \in Slots : routeCreate(s)
    \/ \E s \in Slots : routeUpdate(s)
    \/ \E s \in Slots : routeDelete(s)
    \/ \E s \in Slots : routeUpload(s)
    \/ \E s \in Slots : uploadResume(s)
    \/ \E s \in Slots : handlerResume(s)
    \/ \E s \in Slots : fetchResume(s)

SpecDialogs == InitDialogSpec /\ [][NextDialogs]_vars

----------------------------------------------------------------------------
(* Properties of the backend and of the round trips *)

NoDuplicates(seq) == \A i, j \in DOMAIN seq : i # j => seq[i] # seq[j]

\* C10: in each store of the mock backend the entries' ids are pairwise
\* distinct, the ids the store has handed out (to its generated entries and to
\* every created entry) are never handed out twice, deletions notwithstanding,
\* and the store's id counter is greater than every id in the store.
MockIdsDistinct ==
    \A e \in Entities :
        /\ NoDuplicates([i \in DOMAIN mock[e] |-> mock[e][i].id])
        /\ NoDuplicates(assignedIds[e])
        /\ Ids(mock[e]) \subseteq {assignedIds[e][i] : i \in DOMAIN assignedIds[e]}
        /\ \A i \in DOMAIN mock[e] : idCounter[e] > mock[e][i].id

\* an entry has been deleted from a store and a later create has been served
MockIdsWitness ==
    \E e \in Entities :
        /\ Len(assignedIds[e]) > MockCount
        /\ Len(mock[e]) < Len(assignedIds[e])
        /\ Ids(mock[e]) = {assignedIds[e][Len(assignedIds[e])]}

\* the read request in slot s returns in this step
ReadReturns(s) ==
    /\ calls[s].op # "idle" /\ calls[s].pc = "response" /\ calls[s].phase = "read"
    /\ calls'[s] = Idle

\* C9: when a read request made through apiFetch (a list fetch or canModify)
\* is answered with 401, the browser is sent to the ERP login URL, the lists
\* stay as they are and a canModify request leaves canModify false; with any
\* other status there is no redirect and the caller gets the response: an OK
\* list answer becomes the client list, an OK canModify answer sets canModify.
HttpErrorRedirect ==
    [][\A s \in Slots : ReadReturns(s) =>
          IF calls[s].status = 401
          THEN /\ location' = ERP_LOGIN_URL
               /\ lists' = lists
               /\ calls[s].route = "canModify" => canModify' = FALSE
          ELSE /\ location' = location
               /\ (Ok(calls[s].status) /\ calls[s].route = "read") =>
                      lists'[calls[s].entity] = toClient(calls[s].entity, calls[s].data.data)
               /\ (Ok(calls[s].status) /\ calls[s].route = "canModify") =>
                      canModify' = calls[s].data.allowed]_vars

\* a 401 has redirected the browser while a list that the backend holds
\* entries for is still empty
HttpErrorRedirectWitness ==
    /\ location = ERP_LOGIN_URL
    /\ errors > 0
    /\ \E e \in Entities : lists[e] = <<>> /\ mock[e] # <<>> /\ calls[1].op = "idle"
                              /\ calls[2].op = "idle" /\ calls[3].op = "idle"

AllOk(statuses) == \A i \in DOMAIN statuses : Ok(statuses[i])

\* C4: when a handler (create, update or delete of any entity) has finished,
\* every answer it got was OK and no other request was in flight during it,
\* the client's list of that entity equals the backend's list: a created entry
\* is in it under the id the backend assigned, an entry the backend updated
\* carries the submitted values, a deleted entry is not in it.
CrudRoundTrip ==
    (lastDone.op # "idle" /\ lastDone.alone /\ AllOk(lastDone.statuses)) =>
        LET e     == lastDone.entity
            shown == lists[e]
            body  == lastDone.body
        IN  /\ shown = toClient(e, mock[e])
            /\ lastDone.op = "handleAdd" =>
                  \E i \in DOMAIN shown :
                      shown[i] = toClient(e, <<Merge(body, [id |-> lastDone.mres.id])>>)[1]
            /\ (lastDone.op = "handleSave" /\ lastDone.mres.hit) =>
                  \E i \in DOMAIN shown : shown[i] = toClient(e, <<body>>)[1]
            /\ lastDone.op = "handleDelete" => body \notin Ids(shown)

\* an update has made its round trip alone and the list shows the new values,
\* which differ from the ones the entry had been generated with
CrudRoundTripWitness ==
    /\ lastDone.op = "handleSave" /\ lastDone.alone /\ AllOk(lastDone.statuses)
    /\ lastDone.mres.hit
    /\ \E i \in DOMAIN lists[lastDone.entity] :
          /\ lists[lastDone.entity][i] = toClient(lastDone.entity, <<lastDone.body>>)[1]

----------------------------------------------------------------------------
(* Properties of the summaries *)

\* the sum of the amounts of the entries of list that are of category c
CategoryTotal(list, c) ==
    SetSum([k \in DOMAIN list |-> list[k].amount],
           {k \in DOMAIN list : list[k].category = c})

\* C5: the summary has one row per category, in categories order, whose
\* totalReceipts and totalExpenditure are the sums of the amounts of the
\* receipts and of the expenditures of that category and whose balance is their
\* difference; the grand totals are the sums of the rows, and the grand balance
\* is the grand receipts minus the grand expenditure.
SummaryAggregation ==
    LET rows == summaryCategoryData
        all  == DOMAIN rows
    IN  /\ Len(rows) = Len(categories)
        /\ \A i \in DOMAIN categories :
              /\ rows[i].category = categories[i]
              /\ rows[i].totalReceipts = CategoryTotal(receipts, categories[i])
              /\ rows[i].totalExpenditure = CategoryTotal(expenditures, categories[i])
              /\ rows[i].balance = rows[i].totalReceipts - rows[i].totalExpenditure
        /\ grandTotals.totalReceipts = SetSum([i \in all |-> rows[i].totalReceipts], all)
        /\ grandTotals.totalExpenditure = SetSum([i \in all |-> rows[i].totalExpenditure], all)
        /\ grandTotals.balance = SetSum([i \in all |-> rows[i].balance], all)
        /\ grandTotals.balance = grandTotals.totalReceipts - grandTotals.totalExpenditure

\* a category with several receipts and an expenditure, and another category
\* with entries of its own
SummaryWitness ==
    /\ \E i \in DOMAIN categories :
          /\ Cardinality({k \in DOMAIN receipts : receipts[k].category = categories[i]}) >= 2
          /\ summaryCategoryData[i].totalExpenditure > 0
    /\ \A i \in DOMAIN categories :
          summaryCategoryData[i].totalReceipts + summaryCategoryData[i].totalExpenditure > 0


AllDates ==
    {receipts[k].date : k \in DOMAIN receipts}
        \cup {expenditures[k].date : k \in DOMAIN expenditures}
        \cup {allocations[k].date : k \in DOMAIN allocations}

StartYears == {y \in (FirstYear - 1) .. LastYear : \E d \in AllDates : InFinancialYear(d, y)}

CategoryIndex(c) == CHOOSE i \in DOMAIN categories : categories[i] = c

\* C6: the financial-year summary has exactly one row for every pair of a
\* financial year in which a receipt, expenditure or allocation is dated and a
\* category; later financial years come first and, within one, the rows follow
\* the categories order; a row's receipts and expenditure are the sums of the
\* amounts of that category's receipts and expenditures dated in that year.
FyCategorySummaryRows ==
    LET rows == fyCategorySummary
    IN  /\ \A k \in DOMAIN rows :
              /\ rows[k].fy[1] \in StartYears /\ rows[k].fy[2] = rows[k].fy[1] + 1
              /\ rows[k].category \in CategorySet
        /\ \A y \in StartYears, c \in CategorySet :
              Cardinality({k \in DOMAIN rows : rows[k].fy[1] = y /\ rows[k].category = c}) = 1
        /\ \A k, l \in DOMAIN rows : k < l =>
              \/ rows[k].fy[1] > rows[l].fy[1]
              \/ /\ rows[k].fy = rows[l].fy
                 /\ CategoryIndex(rows[k].category) < CategoryIndex(rows[l].category)
        /\ \A k \in DOMAIN rows :
              LET y == rows[k].fy[1]
                  c == rows[k].category
                  Of(list) == SetSum([j \in DOMAIN list |-> list[j].amount],
                                     {j \in DOMAIN list : /\ list[j].category = c
                                                           /\ InFinancialYear(list[j].date, y)})
              IN  /\ rows[k].receipts = Of(receipts)
                  /\ rows[k].expenditure = Of(expenditures)

\* two financial years, and a category with receipts in one of them only
FyCategorySummaryWitness ==
    LET rows == fyCategorySummary
    IN  /\ Len(financialYears) >= 2
        /\ \E k, l \in DOMAIN rows :
              /\ rows[k].category = rows[l].category
              /\ rows[k].fy # rows[l].fy
              /\ rows[k].receipts > 0
              /\ rows[l].receipts = 0

----------------------------------------------------------------------------
(* Properties of overlapping requests and of the initial load *)

\* no request of entity e is in flight
Quiet(e) == \A s \in Slots : calls[s].op = "idle" \/ calls[s].entity # e

LoadDone ==
    /\ mounted /\ errors = 0 /\ opsLeft = MaxOps
    /\ \A s \in 1 .. 4 : calls[s].op = "idle"

\* C12: whatever order the four answers of the initial load arrive in, once
\* all have been processed the three lists equal the backend's lists; an OK
\* list answer sets the list of its entity only and leaves canModify alone, the
\* canModify answer sets canModify to the allowed flag it carries and leaves
\* the lists alone.
InitialLoad ==
    /\ [](LoadDone => \A e \in Entities : lists[e] = toClient(e, mock[e]))
    /\ [][\A s \in 1 .. 4 : (ReadReturns(s) /\ Ok(calls[s].status)) =>
             IF calls[s].route = "read"
             THEN /\ lists' = [lists EXCEPT ![calls[s].entity] =
                                   toClient(calls[s].entity, calls[s].data.data)]
                  /\ canModify' = canModify
             ELSE /\ canModify' = calls[s].data.allowed
                  /\ lists' = lists]_vars

\* the load is done, the lists are filled and the user may modify
InitialLoadWitness ==
    /\ LoadDone /\ canModify
    /\ \A e \in Entities : lists[e] # <<>>

----------------------------------------------------------------------------
(* Properties of the permission and of failed requests *)

MutationRoutes == {"create", "update", "delete", "upload"}

\* a create, update, delete or upload request is sent from slot s in this step
MutationSent(s) ==
    /\ calls'[s].op # "idle" /\ calls'[s].pc = "request"
    /\ calls'[s].route \in MutationRoutes
    /\ calls[s].op = "idle" \/ calls[s].route # calls'[s].route

\* the canModify request returns in this step
CanModifyReturns(s) == ReadReturns(s) /\ calls[s].route = "canModify"

\* the permission changes, and requests are sent, only as the code allows
GatedStep ==
    /\ (~canModify /\ canModify') =>
           \E s \in Slots : /\ CanModifyReturns(s) /\ Ok(calls[s].status)
                             /\ calls[s].data.allowed = TRUE
    /\ \A s \in Slots : (CanModifyReturns(s) /\ ~Ok(calls[s].status)) => ~canModify'
    /\ \A s \in Slots : MutationSent(s) => canModify

\* C13: canModify is false until the load's answers arrive; it becomes true
\* only in the step in which the canModify request returns with an OK answer
\* that carries allowed = true, and a canModify request that fails leaves it
\* false; no create, update, delete or upload request is sent from a state in
\* which canModify is false.
PermissionGating == [](~mounted => ~canModify) /\ [][GatedStep]_vars

\* a create request is in flight, sent while the permission was granted
PermissionWitness ==
    /\ canModify
    /\ \E s \in Slots : calls[s].op = "handleAdd" /\ calls[s].route = "create"
                          /\ calls[s].pc = "request"

\* the code waiting on slot s resumes in this step
Resumes(s) ==
    /\ calls[s].op # "idle" /\ calls[s].pc = "response"
    /\ calls'[s].op = "idle" \/ calls'[s].pc = "request"

\* C14: when a create, update or delete request is answered with a non-OK
\* status, the handler sends no refetch and ends, and the lists are left as
\* they were; a list read answered with a non-OK status leaves the lists as
\* they were too.
FailedRequestKeepsLists ==
    [][\A s \in Slots :
          (Resumes(s) /\ ~Ok(calls[s].status)
                      /\ calls[s].route \in {"create", "update", "delete", "read"}) =>
             /\ lists' = lists
             /\ calls'[s].op = "idle"]_vars

\* a create request was refused while the list held loaded rows
FailedMutationWitness ==
    /\ lastDone.op = "handleAdd" /\ lastDone.outcome = "no refetch"
    /\ ~AllOk(lastDone.statuses)
    /\ lists[lastDone.entity] # <<>>
    /\ lists[lastDone.entity] = toClient(lastDone.entity, mock[lastDone.entity])

\* what slot s does in this step, as far as a file attachment is concerned
AttachmentStep(s) ==
    \* a handler given a File sends the upload first
    /\ ( /\ calls[s].op = "idle" /\ calls'[s].op \in {"handleAdd", "handleSave"}
         /\ calls'[s].entity # "allocations"
         /\ isFileAttachment(calls'[s].body.attachment) ) => calls'[s].route = "upload"
    \* no create or update request carries the File itself
    /\ ( /\ MutationSent(s) /\ calls'[s].route \in {"create", "update"}
         /\ calls'[s].entity # "allocations" ) =>
           ~isFileAttachment(calls'[s].body.attachment)
    \* the create or update follows the upload's OK answer and carries its url;
    \* after a refused upload the handler ends
    /\ (Resumes(s) /\ calls[s].route = "upload") =>
           /\ lists' = lists /\ mock' = mock
           /\ IF Ok(calls[s].status)
              THEN /\ calls'[s].pc = "request"
                   /\ calls'[s].route = IF calls[s].op = "handleAdd" THEN "create" ELSE "update"
                   /\ calls'[s].body.attachment = calls[s].data.url
              ELSE calls'[s].op = "idle"

\* C15: a receipt or expenditure handler given a File attachment sends the
\* upload first; the create or update request is sent only when the upload has
\* returned OK and its body carries the url of the upload's answer; when the
\* upload is refused no create or update is sent and the lists stay as they were.
AttachmentOrdering == [][\A s \in Slots : AttachmentStep(s)]_vars

\* an entry was added with a file: upload, create and refetch were answered
\* OK, and the list shows the entry with the url of the upload's answer
AttachmentWitness ==
    /\ lastDone.op = "handleAdd" /\ lastDone.statuses = <<200, 200, 200>>
    /\ lastDone.body.attachment = "uploads/bill.pdf"
    /\ \E i \in DOMAIN lists[lastDone.entity] :
          /\ lists[lastDone.entity][i].id = lastDone.mres.id
          /\ lists[lastDone.entity][i].attachment = "uploads/bill.pdf"

----------------------------------------------------------------------------
(* Properties of the dialogs *)

\* no field configured with required: true is left empty
RequiredFilled(fields, formData) ==
    \A f \in Range(fields) : f.required => formData[f.key] # Blank(f.type)

\* C20 (as claimed): the Add Entry button of an AddEntryDialog starts the add
\* handler, and with it a create request, only when every field configured
\* with required: true holds a non-empty value.
AddNeedsRequiredFields ==
    [][\A s \in Slots :
          (addDialog.open /\ calls[s].op = "idle" /\ calls'[s].op = "handleAdd") =>
             RequiredFilled(fieldsOf(addDialog.entity), addDialog.formData)]_vars

\* C16 (as claimed): every receipt and every expenditure of the lists falls in
\* exactly one category row of the summary, and the grand totals are the sums
\* of the amounts of all receipts and of all expenditures.
EveryEntryCounted ==
    /\ \A list \in {receipts, expenditures} : \A i \in DOMAIN list :
          Cardinality({k \in DOMAIN summaryCategoryData :
                          summaryCategoryData[k].category = list[i].category}) = 1
    /\ grandTotals.totalReceipts = SumSeq(Amounts(receipts))
    /\ grandTotals.totalExpenditure = SumSeq(Amounts(expenditures))

\* C17 (as claimed): in every category row of the summary the totalExpenditure
\* of the sub-category rows add up to the totalExpenditure of the row.
SubCategoriesAddUp ==
    \A k \in DOMAIN summaryCategoryData :
       LET row == summaryCategoryData[k]
       IN  SumSeq([j \in DOMAIN row.subCategories |-> row.subCategories[j].totalExpenditure])
              = row.totalExpenditure

----------------------------------------------------------------------------
(* Properties of the current entry of an allocation number *)

\* entry i of list is the current entry of its allocation number: the latest
\* dated one, and of several of that date the first stored
IsCurrent(list, i) ==
    \A j \in DOMAIN list :
       list[j].allocationNumber = list[i].allocationNumber =>
          \/ list[j].date < list[i].date
          \/ list[j].date = list[i].date /\ i <= j

\* C18 (as claimed): the allocated amount of a (financial year, category) row
\* is the sum, over the allocation numbers, of the amount of the current entry
\* of the number when that entry is dated in the year; superseded entries add
\* nothing.
AllocatedCountsCurrentOnly ==
    \A k \in DOMAIN fyCategorySummary :
       LET row == fyCategorySummary[k]
       IN  row.allocated =
              SetSum([i \in DOMAIN allocations |-> AllocatedFor(allocations[i], row.category)],
                     {i \in DOMAIN allocations :
                         IsCurrent(allocations, i) /\ getFY(allocations[i].date) = row.fy})

\* the number is one the Allocation Number search box asks for
NumberSearched(filters, no) ==
    filters.allocationNumber # <<>> =>
       includes(toLowerCase(no), toLowerCase(filters.allocationNumber))

\* the id an Edit or Delete of an allocation card carries
TargetId(call) == IF call.op = "handleDelete" THEN call.body ELSE call.body.id

\* an Edit or a Delete of an allocation card starts in slot s
CardControlUsed(s) ==
    /\ calls[s].op = "idle"
    /\ calls'[s].op \in {"handleSave", "handleDelete"}
    /\ calls'[s].entity = "allocations"

\* the delete started from an allocation card returns with the refetched list
CardDeleteDone ==
    /\ lastDone' # lastDone
    /\ lastDone'.op = "handleDelete" /\ lastDone'.entity = "allocations"
    /\ lastDone'.outcome = "set"

AllocationCardStep ==
    /\ \A s \in Slots : CardControlUsed(s) =>
          \E i \in DOMAIN allocations :
             IsCurrent(allocations, i) /\ allocations[i].id = TargetId(calls'[s])
    /\ CardDeleteDone =>
          \A i \in DOMAIN allocations : allocations[i].id = lastDone'.body =>
             LET no     == allocations[i].allocationNumber
                 left   == {j \in DOMAIN allocations' : allocations'[j].allocationNumber = no}
                 tables == allocationTables'
                 cards  == {k \in DOMAIN tables : tables[k].allocationNumber = no}
             IN  IF left = {} THEN cards = {}
                 ELSE IF ~NumberSearched(allocationFilters', no) THEN TRUE
                 ELSE /\ Cardinality(cards) = 1
                      /\ \A k \in cards : \E j \in left :
                            /\ IsCurrent(allocations', j)
                            /\ allocations'[j].id = tables[k].entry.id

\* C19 (as claimed): the Edit and Delete controls of an allocation card carry
\* the id of the current entry of the card's number; when the current entry
\* of a number is deleted and other entries of the number are stored, the
\* number keeps its card (as long as the search box does not exclude the
\* number), now showing the latest of the entries left, and the card goes only
\* when no entry of the number is left.
CardTargetsCurrent == [][AllocationCardStep]_vars

----------------------------------------------------------------------------
(* Properties of the forms of the dialogs *)

AddExpenditureOpen == addDialog.open /\ addDialog.entity = "expenditures"

\* the sub-category of the form is empty or one of the category of the form
SubCategoryFits(formData) ==
    \/ formData.subCategory = ""
    \/ /\ formData.category # ""
       /\ formData.subCategory \in Range(subCategoriesMap[formData.category])

\* C21: in the Add Expenditure dialog the sub-category is always empty or a
\* sub-category of the selected category; a change of the category empties the
\* sub-category, and while no category is selected no sub-category can be
\* chosen.
AddFormSubCategory ==
    /\ [](AddExpenditureOpen => SubCategoryFits(addDialog.formData))
    /\ [][(AddExpenditureOpen /\ addDialog'.open) =>
             /\ addDialog'.formData.category # addDialog.formData.category =>
                   addDialog'.formData.subCategory = ""
             /\ addDialog.formData.category = "" =>
                   addDialog'.formData.subCategory = ""]_vars

\* a sub-category was chosen after the category had been changed
AddFormSubCategoryWitness ==
    /\ AddExpenditureOpen
    /\ addDialog.formData.category = categories[2]
    /\ addDialog.formData.subCategory = subCategoriesMap[categories[2]][1]
    /\ addDialog.formData.billNo # <<>>

\* the handler of a button of the EditDeleteDialog starts in slot s
HandlerStarts(s, op) == calls[s].op = "idle" /\ calls'[s].op = op

EditDeleteStep ==
    \* onSave: from the open edit dialog, with its form, closing it
    /\ \A s \in Slots : HandlerStarts(s, "handleSave") =>
          /\ editDialog.open /\ ~editDialog'.open
          /\ calls'[s].entity = editDialog.entity
          /\ calls'[s].body = updatePayload(editDialog.entity, editDialog.id,
                                            editDialog.formData)
    \* onDelete: from the open confirmation, for its row, closing it
    /\ \A s \in Slots : HandlerStarts(s, "handleDelete") =>
          /\ deleteDialog.open /\ ~deleteDialog'.open
          /\ calls'[s].entity = deleteDialog.entity
          /\ calls'[s].body = deleteDialog.id
    \* a dialog that closes starts its own handler or none
    /\ (editDialog.open /\ ~editDialog'.open) =>
          \A s \in Slots : calls'[s].op \in {calls[s].op, "handleSave"}
    /\ (deleteDialog.open /\ ~deleteDialog'.open) =>
          \A s \in Slots : calls'[s].op \in {calls[s].op, "handleDelete"}
    \* the edit dialog opens on the values of its row
    /\ (~editDialog.open /\ editDialog'.open) =>
          \E i \in DOMAIN lists[editDialog'.entity] :
             /\ lists[editDialog'.entity][i].id = editDialog'.id
             /\ editDialog'.formData = lists[editDialog'.entity][i]

\* C22: onSave is called only from the open edit dialog, with the values of
\* its form, and onDelete only from the open delete confirmation, for its
\* row; a dialog that closes otherwise starts no handler; the edit dialog
\* always opens showing the current values of its row, whatever was typed
\* before it was closed.
EditDeleteDialogCalls == [][EditDeleteStep]_vars

\* an edit dialog was cancelled with typed values that differ from its row
EditCancelledWitness ==
    /\ ~editDialog.open /\ editDialog.formData # <<>>
    /\ opsLeft = MaxOps
    /\ \E i \in DOMAIN lists[editDialog.entity] :
          /\ lists[editDialog.entity][i].id = editDialog.id
          /\ lists[editDialog.entity][i] # editDialog.formData

----------------------------------------------------------------------------
(* Properties of the page a table shows *)

\* C24 (as claimed): after a change of a filter that selects the rows of a
\* table (a filter of the DataTable, or a field of the filter card of the
\* tab) or of the rows-per-page setting the table shows page 1; a change of
\* the sort of a table that stays mounted leaves the current page and the
\* filter values as they were.
FilterShowsPageOne ==
    [][/\ ( \/ receiptTabFilters' # receiptTabFilters
            \/ filterValues' # filterValues
            \/ rowsPerPage' # rowsPerPage ) => safePage' = 1
       /\ (sortConfig' # sortConfig /\ receiptTabFilters' = receiptTabFilters) =>
             /\ currentPage' = currentPage
             /\ filterValues' = filterValues]_vars

----------------------------------------------------------------------------
(* Properties of the mock backend's update and delete routes *)

\* the mock answers the request of slot s on the given route in this step
MockAnswers(s, route) ==
    /\ Waiting(s, route)
    /\ calls'[s].pc = "response" /\ calls'[s].status = 200

\* the positions of a store that hold the id
Holding(store, id) == {i \in DOMAIN store : store[i].id = id}

\* the store without its position k
Without(store, k) == SubSeq(store, 1, k - 1) \o SubSeq(store, k + 1, Len(store))

MockUpdateDeleteStep ==
    /\ \A s \in Slots : MockAnswers(s, "update") =>
          LET e == calls[s].entity
              body == calls[s].body
              at == Holding(mock[e], body.id)
          IN  /\ calls'[s].data.success = TRUE
              /\ \A f \in Entities \ {e} : mock'[f] = mock[f]
              /\ Cardinality(at) <= 1
              /\ at = {} => mock'[e] = mock[e]
              /\ Len(mock'[e]) = Len(mock[e])
              /\ \A i \in DOMAIN mock[e] :
                    mock'[e][i] = IF i \in at THEN Merge(mock[e][i], body) ELSE mock[e][i]
    /\ \A s \in Slots : MockAnswers(s, "delete") =>
          LET e == calls[s].entity
              id == calls[s].body
              at == Holding(mock[e], id)
          IN  /\ calls'[s].data.success = TRUE
              /\ \A f \in Entities \ {e} : mock'[f] = mock[f]
              /\ Cardinality(at) <= 1
              /\ at = {} => mock'[e] = mock[e]
              /\ \A k \in at : mock'[e] = Without(mock[e], k)

\* C25: in the mock backend an update or a delete whose id matches no stored
\* entry leaves the store as it was and is answered 200 with success: true;
\* one whose id matches changes, or removes, only the entry of that id, the
\* other entries and their order staying as they were.
MockUpdateDelete == [][MockUpdateDeleteStep]_vars

\* an update was answered with success although its entry had been deleted
MockUnmatchedWitness ==
    \E s \in Slots :
        /\ calls[s].op # "idle" /\ calls[s].route = "update" /\ calls[s].pc = "response"
        /\ calls[s].status = 200 /\ calls[s].data.success = TRUE
        /\ calls[s].body.id \notin Ids(mock[calls[s].entity])
        /\ calls[s].body.id \in Ids(lists[calls[s].entity])

----------------------------------------------------------------------------
(* Properties of the summary table's expansion *)

\* the sub-category rows of one category, as the summary computes them
SubRowsOf(category) ==
    LET i == CHOOSE k \in DOMAIN summaryCategoryData :
                 summaryCategoryData[k].category = category
    IN  summaryCategoryData[i].subCategories

SummaryExpansionStep ==
    expandedRows' # expandedRows =>
        \E c \in CategorySet :
            /\ c \in expandedRows => expandedRows' = {}
            /\ c \notin expandedRows => expandedRows' = {c}

\* C26: at most one category row of the summary table is expanded; a click
\* on a collapsed category expands it and collapses the other one, a click on
\* the expanded category collapses it; the bar chart shows the sub-categories
\* of all categories while none is expanded, and those of the expanded
\* category only otherwise.
SummaryExpansion ==
    /\ [](/\ expandedRows \subseteq CategorySet
          /\ Cardinality(expandedRows) <= 1
          /\ expandedRows = {} =>
                Range(chartData) = UNION {Range(SubRowsOf(c)) : c \in CategorySet}
          /\ \A c \in expandedRows : chartData = SubRowsOf(c))
    /\ [][SummaryExpansionStep]_vars

\* a category is expanded, after another one was, and the chart shows its
\* sub-categories, one of them with expenditure
SummaryExpansionWitness ==
    /\ expandedRows = {categories[2]}
    /\ Len(chartData) = Len(subCategoriesMap[categories[2]])
    /\ \E i \in DOMAIN chartData : chartData[i].totalExpenditure # 0

----------------------------------------------------------------------------
(* Properties of the allocation history's header *)

\* the allocation numbers of the current history page
OnHistoryPage ==
    LET page == paginatedHistory
    IN  {page[i].allocationNumber : i \in DOMAIN page}

HistoryHeaderStep ==
    clickHistoryHeader =>
        LET onPage == OnHistoryPage
        IN  /\ onPage # {}
            /\ onPage \subseteq expandedHistory =>
                  expandedHistory' = expandedHistory \ onPage
            /\ ~(onPage \subseteq expandedHistory) =>
                  /\ onPage \subseteq expandedHistory'
                  /\ expandedHistory \subseteq expandedHistory'
            /\ expandedHistory' \ onPage = expandedHistory \ onPage

\* C27: a click on the History header collapses exactly the allocations of
\* the current history page if every one of them is expanded, and expands all
\* of them otherwise; the allocations of the other history pages stay as
\* they were, expanded or collapsed.
HistoryHeaderClick == [][HistoryHeaderStep]_vars

\* the second history page is shown with all its allocations expanded, and
\* an allocation of the first page is expanded too
HistoryHeaderWitness ==
    /\ safeHistoryPage = 2
    /\ OnHistoryPage \subseteq expandedHistory
    /\ expandedHistory \ OnHistoryPage # {}
    /\ Cardinality(OnHistoryPage) >= 2

----------------------------------------------------------------------------
(* Properties of the Reports tab's filters *)

ReportTypeStep ==
    \A type \in {"receipts", "expenditure"} :
        selectReportType(type) =>
            report' = [NoReport EXCEPT !.reportType = type]

\* C28: the dates of the Reports tab are empty unless the period is Date
\* Range and the financial year is empty unless the period is Financial
\* Year; selecting a report type clears every filter, so the category,
\* sub-category and department are empty for a receipts report and the
\* receipt category is empty for an expenditure report; with no report type
\* the report has no rows.
ReportFilterState ==
    /\ [](/\ report.filterType # "dateRange" =>
                report.startDate = <<>> /\ report.endDate = <<>>
          /\ report.filterType # "financialYear" => report.selectedFinancialYear = <<>>
          /\ report.reportType = "receipts" =>
                /\ report.selectedCategory = "" /\ report.selectedSubCategory = ""
                /\ report.selectedDepartment = ""
          /\ report.reportType = "expenditure" => report.selectedReceiptCategory = ""
          /\ report.reportType = "" => filteredReportData = <<>>)
    /\ [][ReportTypeStep]_vars

\* a receipts report of one financial year, by category, with a row
ReportFilterWitness ==
    /\ report.reportType = "receipts"
    /\ report.filterType = "financialYear"
    /\ report.selectedFinancialYear # <<>>
    /\ report.selectedReceiptCategory # ""
    /\ filteredReportData # <<>>
    /\ Len(filteredReportData) < Len(receipts) + Len(expenditures)

----------------------------------------------------------------------------
(* Properties of the allocation edit form *)

\* the amount of each category in a list of category amounts
AmountsByCategory(list) ==
    {<<list[i].category, list[i].allocatedAmount>> : i \in DOMAIN list}

\* C29: for an allocation with exactly one entry per category,
\* flatToAllocation(allocationToFlat(a)) has the date, the allocation number
\* and the amount of every category of a, and saving it from the edit dialog
\* with no field changed leaves the date, the number and the amounts of the
\* stored allocation as they were.
AllocationRoundTrip ==
    fnRes # NoResult =>
        LET a     == RoundTripClient(fnArg)
            back  == fnRes[2]
            saved == fnRes[3]
        IN  /\ back.date = a.date
            /\ back.allocationNumber = a.allocationNumber
            /\ AmountsByCategory(back.categoryAmounts) = AmountsByCategory(a.categoryAmounts)
            /\ saved.id = fnArg.id
            /\ saved.date = fnArg.date
            /\ saved.allocationNumber = fnArg.allocationNumber
            /\ AmountsByCategory(saved.categoryAmounts) =
                   AmountsByCategory(fnArg.categoryAmounts)

\* an allocation that lists the categories in another order than categories,
\* with different amounts, has been saved unchanged
AllocationRoundTripWitness ==
    /\ fnRes # NoResult
    /\ fnArg.categoryAmounts[1].category # categories[1]
    /\ fnArg.categoryAmounts[1].allocatedAmount # fnArg.categoryAmounts[2].allocatedAmount
    /\ fnArg.categoryAmounts[1].allocatedAmount = 0

----------------------------------------------------------------------------
(* Properties of the rows of the Reports table of the in-memory Dashboard *)

\* the list without the entry that is the object ref
WithoutRef(list, ref) ==
    LET Other(x) == x.ref # ref IN SelectSeq(list, Other)

ReportRowStep ==
    \A k \in 1 .. InMemoryCount :
        /\ reportRowDelete(k) =>
              lists'[ReportEntity] =
                  WithoutRef(lists[ReportEntity], filteredReportData[k].ref)
        /\ \A amount \in InMemoryAmounts :
              reportRowSave(k, amount) =>
                  lists'[ReportEntity] =
                      [n \in DOMAIN lists[ReportEntity] |->
                          IF lists[ReportEntity][n].ref = filteredReportData[k].ref
                          THEN [filteredReportData[k] EXCEPT !.amount = amount]
                          ELSE lists[ReportEntity][n]]

\* C30 (as claimed): in the Dashboard that keeps its lists in memory, Save
\* and Delete of a row of the Reports table change exactly the list entry
\* the row displays, also when two entries have the same date, bill number
\* (or sanction order) and amount.
ReportRowTargetsDisplayed == [][ReportRowStep]_vars

====
